---- MODULE Spec2Model ----
(***************************************************************************)
(* A model of the bf-rs pipeline: parser, RLE pass, peephole pass, flat    *)
(* bytecode compiler, the tree interpreters, the bytecode dispatcher and   *)
(* the x86-64 JIT, all run on the same source, tape capacity and input.    *)
(*                                                                         *)
(* Indices follow the Rust source: program counters and jump addresses are *)
(* 0-based, so instruction number pc of a vector P is P[pc + 1] here.      *)
(***************************************************************************)
EXTENDS Integers, Sequences, FiniteSets, TLC

VARIABLES
    src,        \* the source bytes handed to the parser
    capacity,   \* the tape capacity of every execution
    stdin,      \* the whole input byte stream of every execution
    host,       \* the host streams: what a read past the last byte and a
                \* write return, [input: "eof" | "error", output: "ok" | "error"]
    mem0,       \* the tape every execution starts from (State::new: all zero)
    ptr0,       \* the head every execution starts from (State::new: 0)
    stage,      \* the position of the pipeline / differential run
    ast,        \* the parse result
    rle,        \* rle(ast)
    peep,       \* peephole(rle(ast))
    byte,       \* bytecode(peephole(rle(ast)))
    jitc,       \* jit(peephole, checked = true): the emitted code
    jitu,       \* jit(peephole, checked = false): the emitted code
    state,      \* the running execution's State: [memory, pointer]
    input,      \* the running execution's unread input
    output,     \* the running execution's output so far
    ctl,        \* tree interpreters: the stack of active interpret() calls
    pc,         \* bytecode dispatcher / JIT code: the program counter
    err,        \* the running execution's error ("" while it has none)
    rts,        \* JIT: the I/O error stored on the RTS object ("" while none)
    results,    \* the terminal result of each finished execution path
    argv,       \* bfi: the command line, [flags, source]
    options,    \* bfi: the NewOptions that clap parsed from the command line
    exit        \* bfi: <<>> while the process runs, <<code>> once it has exited

vars == <<src, capacity, stdin, host, mem0, ptr0, stage, ast, rle, peep, byte,
          jitc, jitu, state, input, output, ctl, pc, err, rts, results,
          argv, options, exit>>

-----------------------------------------------------------------------------
(* Bounds of the model.                                                    *)

MaxSrcLen == 3
MaxCap == 2
MaxScenarioCap == 4
MaxInput == 1
MaxOut == 4
MaxTape == 3
MaxSkip == 2
MaxParseLen == 4
MaxAstLen == 4
MaxNestLen == 2
MaxCliCap == 2

(* Cells are bytes: arithmetic is modulo 256.                              *)
CellMod == 256

(* The width of Count and of the JIT's registers, scaled down from 2^64.   *)
WordMod == 65536

-----------------------------------------------------------------------------
(* Vocabulary: one record shape for every IR.  op names the command or     *)
(* instruction, n is its count / delta / offset / address, body is the     *)
(* sub-tree of a Loop (empty otherwise).                                   *)

Instr(op, n) == [op |-> op, n |-> n, body |-> <<>>]

Loop(body) == [op |-> "Loop", n |-> 0, body |-> body]

CommandBytes == {"<", ">", "+", "-", ",", ".", "[", "]"}

Pop(s) == SubSeq(s, 1, Len(s) - 1)

Top(s) == s[Len(s)]

-----------------------------------------------------------------------------
(* Parser: bytes -> AST.  A stack of open instruction lists; `[` opens a   *)
(* list, `]` closes the innermost one into a Loop of its parent.           *)

ParseError(e) == [ok |-> FALSE, err |-> e, prog |-> <<>>]

Command(b) ==
    CASE b = "<" -> Instr("Left", 1)
      [] b = ">" -> Instr("Right", 1)
      [] b = "+" -> Instr("Add", 1)
      [] b = "-" -> Instr("Add", CellMod - 1)
      [] b = "," -> Instr("In", 0)
      [] b = "." -> Instr("Out", 0)

(* A plausible slip: a `]` with no open `[` is skipped as if it were not   *)
(* a command.                                                              *)
RECURSIVE parse_from_lenient(_, _, _)
parse_from_lenient(bytes, i, stack) ==
    IF i > Len(bytes)
    THEN IF Len(stack) > 1
         THEN ParseError("UnmatchedBegin")
         ELSE [ok |-> TRUE, err |-> "", prog |-> stack[1]]
    ELSE LET b == bytes[i] IN
         IF b = "["
         THEN parse_from_lenient(bytes, i + 1, Append(stack, <<>>))
         ELSE IF b = "]"
         THEN IF Len(stack) = 1
              THEN parse_from_lenient(bytes, i + 1, stack)
              ELSE LET body == Top(stack)
                       parent == stack[Len(stack) - 1]
                       outer == SubSeq(stack, 1, Len(stack) - 2)
                   IN parse_from_lenient(bytes, i + 1,
                                         Append(outer, Append(parent, Loop(body))))
         ELSE IF b \in CommandBytes
         THEN parse_from_lenient(bytes, i + 1,
                                 Append(Pop(stack), Append(Top(stack), Command(b))))
         ELSE parse_from_lenient(bytes, i + 1, stack)

RECURSIVE parse_from(_, _, _)
parse_from(bytes, i, stack) ==
    IF i > Len(bytes)
    THEN IF Len(stack) > 1
         THEN ParseError("UnmatchedBegin")
         ELSE [ok |-> TRUE, err |-> "", prog |-> stack[1]]
    ELSE LET b == bytes[i] IN
         IF b = "["
         THEN parse_from(bytes, i + 1, Append(stack, <<>>))
         ELSE IF b = "]"
         THEN IF Len(stack) = 1
              THEN ParseError("UnmatchedEnd")
              ELSE LET body == Top(stack)
                       parent == stack[Len(stack) - 1]
                       outer == SubSeq(stack, 1, Len(stack) - 2)
                   IN parse_from(bytes, i + 1,
                                 Append(outer, Append(parent, Loop(body))))
         ELSE IF b \in CommandBytes
         THEN parse_from(bytes, i + 1,
                         Append(Pop(stack), Append(Top(stack), Command(b))))
         ELSE parse_from(bytes, i + 1, stack)

parse_program(bytes) == parse_from(bytes, 1, << <<>> >>)

-----------------------------------------------------------------------------
(* RLE pass: AST -> RLE.  Runs of Left, of Right and of Add are coalesced; *)
(* Add deltas sum modulo 256 and a zero sum is erased.                     *)

(* A plausible slip: a run of Adds that sums to zero is kept as Add(0).    *)
rle_push_keeping_zero(out, cmd) ==
    IF out = <<>>
    THEN <<cmd>>
    ELSE LET last == Top(out) IN
         IF cmd.op \in {"Left", "Right"} /\ last.op = cmd.op
         THEN Append(Pop(out), Instr(cmd.op, last.n + cmd.n))
         ELSE IF cmd.op = "Add" /\ last.op = "Add"
         THEN Append(Pop(out), Instr("Add", (last.n + cmd.n) % CellMod))
         ELSE Append(out, cmd)

(* A plausible slip: runs of Right are left as they are.                   *)
rle_push_but_right(out, cmd) ==
    IF out = <<>>
    THEN <<cmd>>
    ELSE LET last == Top(out) IN
         IF cmd.op = "Left" /\ last.op = cmd.op
         THEN Append(Pop(out), Instr(cmd.op, last.n + cmd.n))
         ELSE IF cmd.op = "Add" /\ last.op = "Add"
         THEN LET sum == (last.n + cmd.n) % CellMod IN
              IF sum = 0 THEN Pop(out) ELSE Append(Pop(out), Instr("Add", sum))
         ELSE Append(out, cmd)

rle_push(out, cmd) ==
    IF out = <<>>
    THEN <<cmd>>
    ELSE LET last == Top(out) IN
         IF cmd.op \in {"Left", "Right"} /\ last.op = cmd.op
         THEN Append(Pop(out), Instr(cmd.op, last.n + cmd.n))
         ELSE IF cmd.op = "Add" /\ last.op = "Add"
         THEN LET sum == (last.n + cmd.n) % CellMod IN
              IF sum = 0 THEN Pop(out) ELSE Append(Pop(out), Instr("Add", sum))
         ELSE Append(out, cmd)

(* The commands prog[lo .. hi] are pushed onto out one by one, from left   *)
(* to right.  The range is halved, and the left half is finished (its      *)
(* length is asked for) before the right half starts, only to keep the     *)
(* evaluation shallow on a long program: the order of the pushes is that   *)
(* of the program.                                                         *)
RECURSIVE rle_from(_, _, _, _)
rle_from(prog, lo, hi, out) ==
    IF lo > hi
    THEN out
    ELSE IF lo = hi
    THEN LET s == prog[lo] IN
         IF s.op = "Loop"
         THEN Append(out, Loop(rle_from(s.body, 1, Len(s.body), <<>>)))
         ELSE rle_push(out, s)
    ELSE LET mid == (lo + hi) \div 2
             done == rle_from(prog, lo, mid, out)
         IN IF Len(done) >= 0 THEN rle_from(prog, mid + 1, hi, done) ELSE <<>>

rle_compile(prog) == rle_from(prog, 1, Len(prog), <<>>)

-----------------------------------------------------------------------------
(* Peephole pass: RLE -> peephole IR.  A loop whose (compiled) body is one *)
(* of the idioms becomes the synthetic instruction.                        *)

set_zero_peephole(body) ==
    Len(body) = 1 /\ body[1].op = "Add" /\ body[1].n % 2 = 1

find_zero_peephole(body) ==
    Len(body) = 1 /\ body[1].op \in {"Right", "Left"}

offset_add_peephole(body) ==
    /\ Len(body) = 4
    /\ body[1] = Instr("Add", CellMod - 1)
    /\ body[2].op \in {"Right", "Left"}
    /\ body[3] = Instr("Add", 1)
    /\ body[4].op \in {"Right", "Left"} \ {body[2].op}
    /\ body[4].n = body[2].n

peephole_loop(body) ==
    IF set_zero_peephole(body)
    THEN Instr("SetZero", 0)
    ELSE IF find_zero_peephole(body)
    THEN Instr(IF body[1].op = "Right" THEN "FindZeroRight" ELSE "FindZeroLeft",
               body[1].n)
    ELSE IF offset_add_peephole(body)
    THEN Instr(IF body[2].op = "Right" THEN "OffsetAddRight" ELSE "OffsetAddLeft",
               body[2].n)
    ELSE Loop(body)

(* A plausible slip: the body of a loop is matched as it stands, so a loop *)
(* inside a loop that is kept is never rewritten.                          *)
RECURSIVE peephole_from_shallow(_, _, _)
peephole_from_shallow(prog, i, out) ==
    IF i > Len(prog)
    THEN out
    ELSE LET s == prog[i] IN
         IF s.op = "Loop"
         THEN peephole_from_shallow(prog, i + 1, Append(out, peephole_loop(s.body)))
         ELSE peephole_from_shallow(prog, i + 1, Append(out, s))

RECURSIVE peephole_from(_, _, _)
peephole_from(prog, i, out) ==
    IF i > Len(prog)
    THEN out
    ELSE LET s == prog[i] IN
         IF s.op = "Loop"
         THEN peephole_from(prog, i + 1,
                            Append(out, peephole_loop(peephole_from(s.body, 1, <<>>))))
         ELSE peephole_from(prog, i + 1, Append(out, s))

peephole_compile(prog) == peephole_from(prog, 1, <<>>)

-----------------------------------------------------------------------------
(* Flat bytecode compiler: peephole IR -> bytecode.                        *)

issue(instructions, instruction) == Append(instructions, instruction)

(* A plausible slip: the placeholder JumpZero(0) is never back-patched.    *)
RECURSIVE Compiler_compile_unpatched(_, _, _)
Compiler_compile_unpatched(source, i, instructions) ==
    IF i > Len(source)
    THEN instructions
    ELSE LET s == source[i] IN
         IF s.op # "Loop"
         THEN Compiler_compile_unpatched(source, i + 1, issue(instructions, s))
         ELSE LET begin_pc == Len(instructions)
                  opened == issue(instructions, Instr("JumpZero", 0))
                  inner == Compiler_compile_unpatched(s.body, 1, opened)
                  closed == issue(inner, Instr("JumpNotZero", begin_pc))
              IN Compiler_compile_unpatched(source, i + 1, closed)

(* A plausible slip: a loop is issued as it is, body and all, instead of   *)
(* being flattened between two jumps.                                      *)
RECURSIVE Compiler_compile_nested(_, _, _)
Compiler_compile_nested(source, i, instructions) ==
    IF i > Len(source)
    THEN instructions
    ELSE Compiler_compile_nested(source, i + 1, issue(instructions, source[i]))

RECURSIVE Compiler_compile(_, _, _)
Compiler_compile(source, i, instructions) ==
    IF i > Len(source)
    THEN instructions
    ELSE LET s == source[i] IN
         IF s.op # "Loop"
         THEN Compiler_compile(source, i + 1, issue(instructions, s))
         ELSE LET begin_pc == Len(instructions)
                  opened == issue(instructions, Instr("JumpZero", 0))
                  inner == Compiler_compile(s.body, 1, opened)
                  end_pc == Len(inner)
                  closed == issue(inner, Instr("JumpNotZero", begin_pc))
                  patched == [closed EXCEPT ![begin_pc + 1] =
                                              Instr("JumpZero", end_pc)]
              IN Compiler_compile(source, i + 1, patched)

flat_compile(source) == Compiler_compile(source, 1, <<>>)

-----------------------------------------------------------------------------
(* Tape state.  A machine m is the State together with the streams and the *)
(* error of the running call: [state, input, output, err]; err = "" while  *)
(* no `?` has returned early.                                              *)

NewState(memory, pointer) == [memory |-> memory, pointer |-> pointer]

HealthyHost == [input |-> "eof", output |-> "ok"]

Machine(st, in, out) ==
    [state |-> st, input |-> in, output |-> out, err |-> "",
     host |-> HealthyHost, rts |-> ""]

MemLen(m) == Cardinality(DOMAIN m.state.memory)

load(m) == m.state.memory[m.state.pointer]

store(m, value) == [m EXCEPT !.state.memory[m.state.pointer] = value]

up(m, by) == store(m, (load(m) + by) % CellMod)

left(m, count) ==
    IF m.state.pointer < count
    THEN [m EXCEPT !.err = "PointerUnderflow"]
    ELSE [m EXCEPT !.state.pointer = @ - count]

right(m, count) ==
    IF m.state.pointer + count >= MemLen(m)
    THEN [m EXCEPT !.err = "PointerOverflow"]
    ELSE [m EXCEPT !.state.pointer = @ + count]

up_pos_offset(m, offset, value) ==
    IF m.state.pointer + offset >= MemLen(m)
    THEN [m EXCEPT !.err = "PointerOverflow"]
    ELSE [m EXCEPT !.state.memory[m.state.pointer + offset] =
                        (@ + value) % CellMod]

up_neg_offset(m, offset, value) ==
    IF m.state.pointer < offset
    THEN [m EXCEPT !.err = "PointerUnderflow"]
    ELSE [m EXCEPT !.state.memory[m.state.pointer - offset] =
                        (@ + value) % CellMod]

(* read and write return nothing to the interpreters (their In and Out     *)
(* arms have no `?`): a host error cannot become the error of the call.    *)
(* A read that gets no byte, at EOF or on an error, stores 0.              *)
read(m) ==
    IF m.input = <<>>
    THEN store(m, 0)
    ELSE [store(m, Head(m.input)) EXCEPT !.input = Tail(m.input)]

write(m) ==
    IF m.host.output = "error"
    THEN m
    ELSE [m EXCEPT !.output = Append(@, load(m))]

-----------------------------------------------------------------------------
(* Peephole interpreter: one non-loop statement.                           *)

RECURSIVE find_zero_right(_, _)
find_zero_right(m, skip) ==
    IF load(m) = 0
    THEN m
    ELSE LET moved == right(m, skip) IN
         IF moved.err # "" THEN moved ELSE find_zero_right(moved, skip)

(* A plausible slip: the scan moves one cell at a time, whatever the skip. *)
RECURSIVE find_zero_left_by_one(_, _)
find_zero_left_by_one(m, skip) ==
    IF load(m) = 0
    THEN m
    ELSE LET moved == left(m, 1) IN
         IF moved.err # "" THEN moved ELSE find_zero_left_by_one(moved, skip)

RECURSIVE find_zero_left(_, _)
find_zero_left(m, skip) ==
    IF load(m) = 0
    THEN m
    ELSE LET moved == left(m, skip) IN
         IF moved.err # "" THEN moved ELSE find_zero_left(moved, skip)

(* A plausible slip: the transfer is made even from a zero cell.          *)
offset_add_right_unguarded(m, offset) ==
    up_pos_offset(store(m, 0), offset, load(m))

offset_add_right(m, offset) ==
    LET value == load(m) IN
    IF value # 0 THEN up_pos_offset(store(m, 0), offset, value) ELSE m

offset_add_left(m, offset) ==
    LET value == load(m) IN
    IF value # 0 THEN up_neg_offset(store(m, 0), offset, value) ELSE m

(* A plausible slip: Left and Right call the other movement.               *)
interpret_instruction_swapped(instruction, m) ==
    CASE instruction.op = "Left" -> right(m, instruction.n)
      [] instruction.op = "Right" -> left(m, instruction.n)
      [] instruction.op = "Add" -> up(m, instruction.n)
      [] instruction.op = "In" -> read(m)
      [] instruction.op = "Out" -> write(m)
      [] instruction.op = "SetZero" -> store(m, 0)
      [] instruction.op = "OffsetAddRight" -> offset_add_right(m, instruction.n)
      [] instruction.op = "OffsetAddLeft" -> offset_add_left(m, instruction.n)
      [] instruction.op = "FindZeroRight" -> find_zero_right(m, instruction.n)
      [] instruction.op = "FindZeroLeft" -> find_zero_left(m, instruction.n)
      [] OTHER -> [m EXCEPT !.err = "panic: unexpected jump instruction"]

interpret_instruction(instruction, m) ==
    CASE instruction.op = "Left" -> left(m, instruction.n)
      [] instruction.op = "Right" -> right(m, instruction.n)
      [] instruction.op = "Add" -> up(m, instruction.n)
      [] instruction.op = "In" -> read(m)
      [] instruction.op = "Out" -> write(m)
      [] instruction.op = "SetZero" -> store(m, 0)
      [] instruction.op = "OffsetAddRight" -> offset_add_right(m, instruction.n)
      [] instruction.op = "OffsetAddLeft" -> offset_add_left(m, instruction.n)
      [] instruction.op = "FindZeroRight" -> find_zero_right(m, instruction.n)
      [] instruction.op = "FindZeroLeft" -> find_zero_left(m, instruction.n)
      [] OTHER -> [m EXCEPT !.err = "panic: unexpected jump instruction"]

(* AST interpreter: one command (Left and Right move by one cell).         *)
ast_interpret_instruction(instruction, m) ==
    CASE instruction.op = "Left" -> left(m, 1)
      [] instruction.op = "Right" -> right(m, 1)
      [] instruction.op = "Add" -> up(m, instruction.n)
      [] instruction.op = "In" -> read(m)
      [] instruction.op = "Out" -> write(m)

(* RLE interpreter: one command with its count.                            *)
rle_interpret_instruction(instruction, m) ==
    CASE instruction.op = "Left" -> left(m, instruction.n)
      [] instruction.op = "Right" -> right(m, instruction.n)
      [] instruction.op = "Add" -> up(m, instruction.n)
      [] instruction.op = "In" -> read(m)
      [] instruction.op = "Out" -> write(m)

-----------------------------------------------------------------------------
(* Tree interpreters, one statement per step.  ctl is the stack of active  *)
(* interpret(body) calls, each a frame [code, i] at statement code[i]; the *)
(* frame below a body's frame stands at the Loop whose `while` is running. *)

Frame(code) == [code |-> code, i |-> 1]

Advance(stack) == [stack EXCEPT ![Len(stack)].i = @ + 1]

TreeHalted(stack) == Len(stack) = 1 /\ stack[1].i > Len(stack[1].code)

(* The statement interpreter of the tree IR that `path` names.             *)
execute(path, instruction, m) ==
    CASE path = "ast" -> ast_interpret_instruction(instruction, m)
      [] path = "rle" -> rle_interpret_instruction(instruction, m)
      [] path = "peephole" -> interpret_instruction(instruction, m)

(* A plausible slip: `if` for `while`, a loop body runs at most once.      *)
interpret_if(stack, m, path) ==
    LET top == Top(stack) IN
    IF top.i > Len(top.code)
    THEN [ctl |-> Advance(Pop(stack)), m |-> m]
    ELSE LET s == top.code[top.i] IN
         IF s.op = "Loop"
         THEN IF load(m) # 0
              THEN [ctl |-> Append(stack, Frame(s.body)), m |-> m]
              ELSE [ctl |-> Advance(stack), m |-> m]
         ELSE LET done == execute(path, s, m) IN
              [ctl |-> IF done.err = "" THEN Advance(stack) ELSE stack,
               m |-> done]

(* A plausible slip: the loop test is inverted.                            *)
interpret_while_zero(stack, m, path) ==
    LET top == Top(stack) IN
    IF top.i > Len(top.code)
    THEN [ctl |-> Pop(stack), m |-> m]
    ELSE LET s == top.code[top.i] IN
         IF s.op = "Loop"
         THEN IF load(m) = 0
              THEN [ctl |-> Append(stack, Frame(s.body)), m |-> m]
              ELSE [ctl |-> Advance(stack), m |-> m]
         ELSE LET done == execute(path, s, m) IN
              [ctl |-> IF done.err = "" THEN Advance(stack) ELSE stack,
               m |-> done]

(* A plausible slip: the result of a statement is dropped (no `?`), the    *)
(* next statement runs whatever the last one returned.                     *)
interpret_unpropagated(stack, m, path) ==
    LET top == Top(stack) IN
    IF top.i > Len(top.code)
    THEN [ctl |-> Pop(stack), m |-> m]
    ELSE LET s == top.code[top.i] IN
         IF s.op = "Loop"
         THEN IF load(m) # 0
              THEN [ctl |-> Append(stack, Frame(s.body)), m |-> m]
              ELSE [ctl |-> Advance(stack), m |-> m]
         ELSE LET done == execute(path, s, m) IN
              [ctl |-> Advance(stack), m |-> [done EXCEPT !.err = ""]]

interpret(stack, m, path) ==
    LET top == Top(stack) IN
    IF top.i > Len(top.code)
    THEN [ctl |-> Pop(stack), m |-> m]
    ELSE LET s == top.code[top.i] IN
         IF s.op = "Loop"
         THEN IF load(m) # 0
              THEN [ctl |-> Append(stack, Frame(s.body)), m |-> m]
              ELSE [ctl |-> Advance(stack), m |-> m]
         ELSE LET done == execute(path, s, m) IN
              [ctl |-> IF done.err = "" THEN Advance(stack) ELSE stack,
               m |-> done]

-----------------------------------------------------------------------------
(* Bytecode dispatcher: one instruction per step.                          *)

(* A plausible slip: the In and Out arms are exchanged.                    *)
bytecode_instruction_io_exchanged(instruction, m) ==
    CASE instruction.op = "Left" -> left(m, instruction.n)
      [] instruction.op = "Right" -> right(m, instruction.n)
      [] instruction.op = "Add" -> up(m, instruction.n)
      [] instruction.op = "In" -> write(m)
      [] instruction.op = "Out" -> read(m)
      [] instruction.op = "SetZero" -> store(m, 0)
      [] instruction.op = "OffsetAddRight" ->
            IF load(m) # 0
            THEN up_pos_offset(store(m, 0), instruction.n, load(m))
            ELSE m
      [] instruction.op = "OffsetAddLeft" ->
            IF load(m) # 0
            THEN up_neg_offset(store(m, 0), instruction.n, load(m))
            ELSE m
      [] instruction.op = "FindZeroRight" -> find_zero_right(m, instruction.n)
      [] instruction.op = "FindZeroLeft" -> find_zero_left(m, instruction.n)

bytecode_instruction(instruction, m) ==
    CASE instruction.op = "Left" -> left(m, instruction.n)
      [] instruction.op = "Right" -> right(m, instruction.n)
      [] instruction.op = "Add" -> up(m, instruction.n)
      [] instruction.op = "In" -> read(m)
      [] instruction.op = "Out" -> write(m)
      [] instruction.op = "SetZero" -> store(m, 0)
      [] instruction.op = "OffsetAddRight" ->
            IF load(m) # 0
            THEN up_pos_offset(store(m, 0), instruction.n, load(m))
            ELSE m
      [] instruction.op = "OffsetAddLeft" ->
            IF load(m) # 0
            THEN up_neg_offset(store(m, 0), instruction.n, load(m))
            ELSE m
      [] instruction.op = "FindZeroRight" -> find_zero_right(m, instruction.n)
      [] instruction.op = "FindZeroLeft" -> find_zero_left(m, instruction.n)

(* A plausible slip: the two jump conditions are exchanged.                *)
jump_target_exchanged(instruction, counter, m) ==
    CASE instruction.op = "JumpZero" ->
            IF load(m) # 0 THEN instruction.n ELSE counter
      [] instruction.op = "JumpNotZero" ->
            IF load(m) = 0 THEN instruction.n ELSE counter

jump_target(instruction, counter, m) ==
    CASE instruction.op = "JumpZero" ->
            IF load(m) = 0 THEN instruction.n ELSE counter
      [] instruction.op = "JumpNotZero" ->
            IF load(m) # 0 THEN instruction.n ELSE counter

(* A plausible slip: a jump leaves the loop of the dispatcher early, so    *)
(* the common `pc += 1` is skipped after it.                               *)
bytecode_interpret_continue(instructions, counter, m) ==
    LET instruction == instructions[counter + 1] IN
    IF instruction.op \in {"JumpZero", "JumpNotZero"}
    THEN [pc |-> IF jump_target(instruction, counter, m) = counter
                 THEN counter + 1
                 ELSE jump_target(instruction, counter, m),
          m |-> m]
    ELSE LET done == bytecode_instruction(instruction, m) IN
         [pc |-> IF done.err = "" THEN counter + 1 ELSE counter, m |-> done]

bytecode_interpret(instructions, counter, m) ==
    LET instruction == instructions[counter + 1] IN
    IF instruction.op \in {"JumpZero", "JumpNotZero"}
    THEN [pc |-> jump_target(instruction, counter, m) + 1, m |-> m]
    ELSE LET done == bytecode_instruction(instruction, m) IN
         [pc |-> IF done.err = "" THEN counter + 1 ELSE counter, m |-> done]

-----------------------------------------------------------------------------
(* Bounds analysis of the JIT.  left and right are the numbers of cells    *)
(* below and above the head that are known to lie on the tape; stack holds *)
(* the snapshots of the enclosing loops.  NoAnalysis proves nothing.       *)

NewAnalysis(kind) == [kind |-> kind, left |-> 0, right |-> 0, stack |-> <<>>]

check_right(b, count) == b.kind = "AbstractInterpreter" /\ b.right >= count

check_left(b, count) == b.kind = "AbstractInterpreter" /\ b.left >= count

move_right(b, count) ==
    [b EXCEPT !.left = @ + count,
              !.right = IF check_right(b, count) THEN @ - count ELSE 0]

move_left(b, count) ==
    [b EXCEPT !.right = @ + count,
              !.left = IF check_left(b, count) THEN @ - count ELSE 0]

reset_right(b) == [b EXCEPT !.right = 0]

reset_left(b) == [b EXCEPT !.left = 0]

(* enter_loop snapshots the state.  The slack counts from the last unknown *)
(* event, and the start of an iteration is one (the head is where the      *)
(* previous iteration left it): the body is analysed from the unknown      *)
(* state.  leave_loop keeps, per side, the smaller of the snapshot (no     *)
(* iteration ran) and the state after the body (some iteration ran).       *)
enter_loop(b, body) ==
    [b EXCEPT !.stack = Append(@, [left |-> b.left, right |-> b.right]),
              !.left = 0,
              !.right = 0]

Min(a, b) == IF a <= b THEN a ELSE b

leave_loop(b) ==
    LET before == Top(b.stack) IN
    [b EXCEPT !.stack = Pop(@),
              !.left = Min(before.left, b.left),
              !.right = Min(before.right, b.right)]

-----------------------------------------------------------------------------
(* JIT compiler.  The emitted code is a vector of operations, one per      *)
(* instruction sequence of compile_statement: n is the constant loaded in  *)
(* rax, test says whether the bounds test was emitted, target is the       *)
(* 0-based index a jump goes to.                                           *)

Emitted(op, n, test, target) == [op |-> op, n |-> n, test |-> test, target |-> target]

NewCompiler(checked) ==
    [asm |-> <<>>,
     checked |-> checked,
     interpreter |-> NewAnalysis(IF checked THEN "AbstractInterpreter"
                                            ELSE "NoAnalysis")]

emit(c, operation) == [c EXCEPT !.asm = Append(@, operation)]

load_constant(count) == count % WordMod

(* Plausible slips: the overflow test is never emitted; the constant is    *)
(* loaded only together with the test.                                     *)
load_pos_offset_untested(c, op, offset, proved) ==
    Emitted(op, load_constant(offset), FALSE, 0)

load_pos_offset_unloaded(c, op, offset, proved) ==
    Emitted(op, IF c.checked /\ ~proved THEN load_constant(offset) ELSE 0,
            c.checked /\ ~proved, 0)

load_pos_offset(c, op, offset, proved) ==
    Emitted(op, load_constant(offset), c.checked /\ ~proved, 0)

(* A plausible slip: the underflow test is never emitted.                  *)
load_neg_offset_untested(c, op, offset, proved) ==
    Emitted(op, load_constant(offset), FALSE, 0)

(* A plausible slip: the test is emitted whenever the step is not proved,  *)
(* in unchecked code too.                                                  *)
load_neg_offset_unproved(c, op, offset, proved) ==
    Emitted(op, load_constant(offset), ~proved, 0)

load_neg_offset(c, op, offset, proved) ==
    Emitted(op, load_constant(offset), c.checked /\ ~proved, 0)

emit_find_zero(c, op, skip) ==
    LET begin_loop == Len(c.asm) + 1
        jump == emit(c, Emitted("Jmp", 0, FALSE, begin_loop + 1))
        body == emit(jump, IF op = "Right"
                           THEN load_pos_offset(c, op, skip, FALSE)
                           ELSE load_neg_offset(c, op, skip, FALSE))
    IN emit(body, Emitted("Jnz", 0, FALSE, begin_loop))

(* A plausible slip: the slack is not reset before the scan is emitted.    *)
find_zero_without_reset(c, op, skip) == emit_find_zero(c, op, skip)

find_zero(c, op, skip) ==
    emit_find_zero([c EXCEPT !.interpreter = IF op = "Right"
                                             THEN reset_right(@)
                                             ELSE reset_left(@)],
                   op, skip)

RECURSIVE jit_compile_from(_, _, _)
compile_statement(c, stm) ==
    CASE stm.op = "Right" ->
            emit([c EXCEPT !.interpreter = move_right(@, stm.n)],
                 load_pos_offset(c, "Right", stm.n,
                                 check_right(c.interpreter, stm.n)))
      [] stm.op = "Left" ->
            emit([c EXCEPT !.interpreter = move_left(@, stm.n)],
                 load_neg_offset(c, "Left", stm.n,
                                 check_left(c.interpreter, stm.n)))
      [] stm.op = "Add" -> emit(c, Emitted("Add", stm.n, FALSE, 0))
      [] stm.op = "In" -> emit(c, Emitted("In", 0, FALSE, 0))
      [] stm.op = "Out" -> emit(c, Emitted("Out", 0, FALSE, 0))
      [] stm.op = "SetZero" -> emit(c, Emitted("SetZero", 0, FALSE, 0))
      [] stm.op = "FindZeroRight" ->
            find_zero(c, "Right", stm.n)
      [] stm.op = "FindZeroLeft" ->
            find_zero(c, "Left", stm.n)
      [] stm.op = "OffsetAddRight" ->
            emit(c, load_pos_offset(c, "OffsetAddRight", stm.n,
                                    check_right(c.interpreter, stm.n)))
      [] stm.op = "OffsetAddLeft" ->
            emit(c, load_neg_offset(c, "OffsetAddLeft", stm.n,
                                    check_left(c.interpreter, stm.n)))
      [] stm.op = "Loop" ->
            LET jump_at == Len(c.asm)
                entered == [c EXCEPT !.interpreter = enter_loop(@, stm.body)]
                jump == emit(entered, Emitted("Jmp", 0, FALSE, 0))
                body == jit_compile_from(jump, stm.body, 1)
                end_label == Len(body.asm)
                test == emit(body, Emitted("Jnz", 0, FALSE, jump_at + 1))
                bound == [test EXCEPT !.asm[jump_at + 1].target = end_label]
            IN [bound EXCEPT !.interpreter = leave_loop(@)]

jit_compile_from(c, program, i) ==
    IF i > Len(program)
    THEN c
    ELSE jit_compile_from(compile_statement(c, program[i]), program, i + 1)

jit_compile(program, checked) ==
    jit_compile_from(NewCompiler(checked), program, 1).asm

-----------------------------------------------------------------------------
(* The emitted code, one operation per step.  Addresses are relative to    *)
(* mem_start, so mem_limit is the tape length and pointer is the head.  A  *)
(* load or store outside [mem_start, mem_limit) is undefined behaviour:    *)
(* the process may fault, or touch memory that is not the tape.            *)

Signed(x) ==
    LET w == x % WordMod IN IF w >= WordMod \div 2 THEN w - WordMod ELSE w

OnTape(m, address) == address >= 0 /\ address < MemLen(m)

UndefinedOutcomes == {"SegmentationFault", "MemoryCorruption"}

Undefined(counter, m) ==
    {[pc |-> counter, m |-> [m EXCEPT !.err = e]] : e \in UndefinedOutcomes}

Goes(counter, m) == {[pc |-> counter, m |-> m]}

Fails(counter, m, e) == {[pc |-> counter, m |-> [m EXCEPT !.err = e]]}

overflow_test(operation, m) ==
    operation.test /\ Signed(MemLen(m) - m.state.pointer) <= Signed(operation.n)

underflow_test(operation, m) ==
    operation.test /\ Signed(m.state.pointer) < Signed(operation.n)

(* The RTS callbacks: the first I/O error is stored on the RTS object;     *)
(* from then on a read returns 0 and a write does nothing.                 *)
rts_read(m) ==
    IF m.rts # ""
    THEN [byte |-> 0, m |-> m]
    ELSE IF m.input = <<>>
    THEN [byte |-> 0,
          m |-> IF m.host.input = "error"
                THEN [m EXCEPT !.rts = "ReadError"]
                ELSE m]
    ELSE [byte |-> Head(m.input), m |-> [m EXCEPT !.input = Tail(m.input)]]

rts_write(m, value) ==
    IF m.rts # ""
    THEN m
    ELSE IF m.host.output = "error"
    THEN [m EXCEPT !.rts = "WriteError"]
    ELSE [m EXCEPT !.output = Append(@, value)]

(* A plausible slip: `mov BYTE [pointer], 0` is left out, the current cell *)
(* keeps its value.                                                        *)
jit_offset_add_keeping(operation, counter, m, target) ==
    IF ~OnTape(m, m.state.pointer)
    THEN Undefined(counter, m)
    ELSE IF load(m) = 0
    THEN Goes(counter + 1, m)
    ELSE IF operation.op = "OffsetAddRight" /\ overflow_test(operation, m)
    THEN Fails(counter, m, "PointerOverflow")
    ELSE IF operation.op = "OffsetAddLeft" /\ underflow_test(operation, m)
    THEN Fails(counter, m, "PointerUnderflow")
    ELSE IF ~OnTape(m, target)
    THEN Undefined(counter, m)
    ELSE Goes(counter + 1,
              [m EXCEPT !.state.memory[target] = (@ + load(m)) % CellMod])

jit_offset_add(operation, counter, m, target) ==
    IF ~OnTape(m, m.state.pointer)
    THEN Undefined(counter, m)
    ELSE IF load(m) = 0
    THEN Goes(counter + 1, m)
    ELSE IF operation.op = "OffsetAddRight" /\ overflow_test(operation, m)
    THEN Fails(counter, m, "PointerOverflow")
    ELSE IF operation.op = "OffsetAddLeft" /\ underflow_test(operation, m)
    THEN Fails(counter, m, "PointerUnderflow")
    ELSE IF ~OnTape(m, target)
    THEN Undefined(counter, store(m, 0))
    ELSE Goes(counter + 1,
              [store(m, 0) EXCEPT !.state.memory[target] =
                                      (@ + load(m)) % CellMod])

(* A plausible slip: the byte read returns is not stored in the cell.      *)
jit_in_unstored(counter, m) ==
    LET got == rts_read(m) IN
    IF OnTape(m, m.state.pointer)
    THEN Goes(counter + 1, got.m)
    ELSE Undefined(counter, got.m)

jit_in(counter, m) ==
    LET got == rts_read(m) IN
    IF OnTape(m, m.state.pointer)
    THEN Goes(counter + 1, store(got.m, got.byte))
    ELSE Undefined(counter, got.m)

(* A plausible slip: the code tests the callback's outcome and returns.    *)
jit_out_returning(counter, m) ==
    LET done == rts_write(m, load(m)) IN
    IF ~OnTape(m, m.state.pointer)
    THEN Undefined(counter, m)
    ELSE IF done.rts # ""
    THEN Fails(counter, done, done.rts)
    ELSE Goes(counter + 1, done)

jit_out(counter, m) ==
    IF OnTape(m, m.state.pointer)
    THEN Goes(counter + 1, rts_write(m, load(m)))
    ELSE Undefined(counter, m)

jit_step(code, counter, m) ==
    LET operation == code[counter + 1]
        pointer == m.state.pointer
    IN
    CASE operation.op = "Right" ->
            IF overflow_test(operation, m)
            THEN Fails(counter, m, "PointerOverflow")
            ELSE Goes(counter + 1,
                      [m EXCEPT !.state.pointer = pointer + operation.n])
      [] operation.op = "Left" ->
            IF underflow_test(operation, m)
            THEN Fails(counter, m, "PointerUnderflow")
            ELSE Goes(counter + 1,
                      [m EXCEPT !.state.pointer = pointer - operation.n])
      [] operation.op = "Add" ->
            IF OnTape(m, pointer)
            THEN Goes(counter + 1, up(m, operation.n))
            ELSE Undefined(counter, m)
      [] operation.op = "In" -> jit_in(counter, m)
      [] operation.op = "Out" -> jit_out(counter, m)
      [] operation.op = "SetZero" ->
            IF OnTape(m, pointer)
            THEN Goes(counter + 1, store(m, 0))
            ELSE Undefined(counter, m)
      [] operation.op = "OffsetAddRight" ->
            jit_offset_add(operation, counter, m, pointer + operation.n)
      [] operation.op = "OffsetAddLeft" ->
            jit_offset_add(operation, counter, m, pointer - operation.n)
      [] operation.op = "Jmp" -> Goes(operation.target, m)
      [] operation.op = "Jnz" ->
            IF OnTape(m, pointer)
            THEN Goes(IF load(m) # 0 THEN operation.target ELSE counter + 1, m)
            ELSE Undefined(counter, m)

-----------------------------------------------------------------------------
(* The differential run: the pipeline is built once, then every execution  *)
(* path runs to its end on the same capacity and input.                    *)

SeqsUpTo(S, n) == UNION {[1 .. k -> S] : k \in 0 .. n}

Scenarios ==
    { <<"+", "[", ">", "+", "]">>,
      <<",", "[", ".", ",", "]">>,
      <<"+", "+", "[", "-", ">", "+", "<", "]">>,
      <<">", "+", "[", "-", "<", "+", ">", "]", "<">>,
      <<"+", ">", "+", "[", "<", "]", ">", ">">>,
      <<">", ">", "+", "[", "<", "+", "]">>,
      <<"[", ">", "+", "<", "]", ">", ".">>,
      <<"+", "[", "[", "-", "]", "]", ">">>,
      <<"-", "[", "+", "+", "]">>,
      <<"x", ",", " ", ".">>,
      <<"+", ">", "+", ">", "<", "<", "[", ">", "]", ">">>,
      <<">", "+", ">", "+", "[", "<", "]", "<">>,
      <<">", "<", "+", "[", "-", ">", "<", "]", ">">>,
      <<"+", "[", ">", "[", ".", "]", "<", "-", "]">>,
      <<"+", ".", "[", ">", "]">> }

ShortSources == SeqsUpTo(CommandBytes, MaxSrcLen)

Reads(bytes) == \E i \in 1 .. Len(bytes) : bytes[i] = ","

InputBytes == {1, 2}

Inputs == SeqsUpTo(InputBytes, MaxInput)

(* The input of the scenarios that read more than once.                    *)
ScenarioInputs == Inputs \cup {<<2, 1>>}

Paths == <<"ast", "rle", "peephole", "bytecode", "jit", "jit_unchecked">>

PathSet == {Paths[i] : i \in 1 .. Len(Paths)}

RunStage(path) == "run_" \o path

RunStages == {RunStage(p) : p \in PathSet}

Running == CHOOSE p \in PathSet : RunStage(p) = stage

NextStage(last) ==
    LET i == CHOOSE j \in 1 .. Len(Paths) : Paths[j] = Running IN
    IF Paths[i] = last THEN "done" ELSE RunStage(Paths[i + 1])

NoResult == [status |-> "None", output |-> <<>>, state |-> NewState(mem0, ptr0)]

Idle ==
    /\ state = NewState(mem0, ptr0)
    /\ input = stdin
    /\ output = <<>>
    /\ ctl = <<>>
    /\ pc = 0
    /\ err = ""
    /\ rts = ""

(* A fresh State and fresh streams for the execution that `next` names.    *)
Begin(next) ==
    /\ stage' = next
    /\ state' = NewState(mem0, ptr0)
    /\ input' = stdin
    /\ output' = <<>>
    /\ pc' = 0
    /\ err' = ""
    /\ rts' = ""
    /\ ctl' = CASE next = "run_ast" -> <<Frame(ast.prog)>>
                [] next = "run_rle" -> <<Frame(rle)>>
                [] next = "run_peephole" -> <<Frame(peep)>>
                [] OTHER -> <<>>

(* The command line of bfi.  The fields of NewOptions that are flags, by   *)
(* field name; each selector but `unchecked` names a pass.                 *)
Selectors == {"ast", "rle", "bytecode", "peephole", "jit", "llvm"}

Flags == Selectors \cup {"unchecked"}

NoArgs == [flags |-> {}, source |-> "none"]

NoOptions == [f \in Flags |-> FALSE]

(* The library called directly, as the tests and benchmarks do: there is   *)
(* no command line and no process exit.                                    *)
AsLibrary ==
    /\ argv = NoArgs
    /\ options = NoOptions
    /\ exit = <<>>

(* Nothing is built yet and the tape is the one State::new makes.          *)
Unparsed ==
    /\ AsLibrary
    /\ mem0 = [a \in 0 .. capacity - 1 |-> 0]
    /\ ptr0 = 0
    /\ stage = "parse"
    /\ ast = ParseError("")
    /\ rle = <<>>
    /\ peep = <<>>
    /\ byte = <<>>
    /\ jitc = <<>>
    /\ jitu = <<>>
    /\ results = [p \in PathSet |-> NoResult]
    /\ Idle

Init ==
    /\ \/ /\ src \in ShortSources
          /\ capacity \in 1 .. MaxCap
          /\ stdin \in IF Reads(src) THEN Inputs ELSE {<<>>}
       \/ /\ src \in Scenarios
          /\ capacity \in 1 .. MaxScenarioCap
          /\ stdin \in IF Reads(src) THEN ScenarioInputs ELSE {<<>>}
    /\ host = HealthyHost
    /\ Unparsed

machine == <<state, input, output, ctl, pc, err, rts>>

given == <<src, capacity, stdin, host, mem0, ptr0, argv>>

fixed == <<given, options, exit>>

Parse ==
    /\ stage = "parse"
    /\ ast' = parse_program(src)
    /\ stage' = IF ast'.ok THEN "rle" ELSE "syntax_error"
    /\ UNCHANGED <<fixed, rle, peep, byte, jitc, jitu, machine, results>>

RleCompile ==
    /\ stage = "rle"
    /\ rle' = rle_compile(ast.prog)
    /\ stage' = "peephole"
    /\ UNCHANGED <<fixed, ast, peep, byte, jitc, jitu, machine, results>>

PeepholeCompile ==
    /\ stage = "peephole"
    /\ peep' = peephole_compile(rle)
    /\ stage' = "bytecode"
    /\ UNCHANGED <<fixed, ast, rle, byte, jitc, jitu, machine, results>>

BytecodeCompile ==
    /\ stage = "bytecode"
    /\ byte' = flat_compile(peep)
    /\ stage' = "jit"
    /\ UNCHANGED <<fixed, ast, rle, peep, jitc, jitu, machine, results>>

JitCompile ==
    /\ stage = "jit"
    /\ jitc' = jit_compile(peep, TRUE)
    /\ jitu' = jit_compile(peep, FALSE)
    /\ Begin("run_ast")
    /\ UNCHANGED <<fixed, ast, rle, peep, byte, results>>

Commit(m) ==
    /\ Len(m.output) <= MaxOut
    /\ state' = m.state
    /\ input' = m.input
    /\ output' = m.output
    /\ err' = m.err
    /\ rts' = m.rts

Current == [Machine(state, input, output) EXCEPT !.host = host, !.rts = rts]

TreeStep(path) ==
    /\ stage = RunStage(path)
    /\ err = ""
    /\ ~TreeHalted(ctl)
    /\ LET done == interpret(ctl, Current, path) IN
          /\ ctl' = done.ctl
          /\ Commit(done.m)
    /\ UNCHANGED <<fixed, stage, ast, rle, peep, byte, jitc, jitu, pc, results>>

AstStep == TreeStep("ast")

RleStep == TreeStep("rle")

PeepholeStep == TreeStep("peephole")

BytecodeStep ==
    /\ stage = "run_bytecode"
    /\ err = ""
    /\ pc < Len(byte)
    /\ LET done == bytecode_interpret(byte, pc, Current) IN
          /\ pc' = done.pc
          /\ Commit(done.m)
    /\ UNCHANGED <<fixed, stage, ast, rle, peep, byte, jitc, jitu, ctl, results>>

JitCode == IF stage = "run_jit" THEN jitc ELSE jitu

JitStep ==
    /\ stage \in {"run_jit", "run_jit_unchecked"}
    /\ err = ""
    /\ pc < Len(JitCode)
    /\ \E done \in jit_step(JitCode, pc, Current) :
          /\ pc' = done.pc
          /\ Commit(done.m)
    /\ UNCHANGED <<fixed, stage, ast, rle, peep, byte, jitc, jitu, ctl, results>>

Returned ==
    \/ err # ""
    \/ stage \in {"run_ast", "run_rle", "run_peephole"} /\ TreeHalted(ctl)
    \/ stage = "run_bytecode" /\ pc >= Len(byte)
    \/ stage \in {"run_jit", "run_jit_unchecked"} /\ pc >= Len(JitCode)

(* The JIT wrapper reports the error the RTS object holds once the machine *)
(* code has returned.                                                      *)
Result == [status |-> IF err # "" THEN err ELSE IF rts # "" THEN rts ELSE "Ok",
           output |-> output,
           state |-> state]

FinishAt(last) ==
    /\ stage \in RunStages
    /\ Returned
    /\ results' = [results EXCEPT ![Running] = Result]
    /\ Begin(NextStage(last))
    /\ UNCHANGED <<fixed, ast, rle, peep, byte, jitc, jitu>>

Finish == FinishAt("jit_unchecked")

Next ==
    \/ Parse
    \/ RleCompile
    \/ PeepholeCompile
    \/ BytecodeCompile
    \/ JitCompile
    \/ AstStep
    \/ RleStep
    \/ PeepholeStep
    \/ BytecodeStep
    \/ JitStep
    \/ Finish

Spec == Init /\ [][Next]_vars

-----------------------------------------------------------------------------
(* The rewrite run: the RLE program is one loop of a peephole idiom, the   *)
(* tape and the head are arbitrary, and the loop (RLE interpreter) and the *)
(* instruction that replaces it (peephole interpreter, bytecode            *)
(* dispatcher) run from the same State.  The JIT is left out: its entry    *)
(* takes the head at the start of the tape.                                *)

CellSamples == {0, 1, CellMod - 1}

DeltaSamples == {1, 3, CellMod - 1}

Idioms ==
    {<<Instr("Add", d)>> : d \in DeltaSamples}
        \cup {<<Instr(op, k)>> : op \in {"Right", "Left"}, k \in 1 .. MaxSkip}
        \cup {<<Instr("Add", CellMod - 1), Instr("Right", k),
                Instr("Add", 1), Instr("Left", k)>> : k \in 1 .. MaxSkip}
        \cup {<<Instr("Add", CellMod - 1), Instr("Left", k),
                Instr("Add", 1), Instr("Right", k)>> : k \in 1 .. MaxSkip}

InitAfterRle(loops, capacities, cells, heads) ==
    /\ AsLibrary
    /\ src = <<>>
    /\ capacity \in capacities
    /\ stdin = <<>>
    /\ host = HealthyHost
    /\ mem0 \in [0 .. capacity - 1 -> cells]
    /\ ptr0 \in heads \cap (0 .. capacity - 1)
    /\ stage = "peephole"
    /\ ast = [ok |-> TRUE, err |-> "", prog |-> <<>>]
    /\ rle \in {<<Loop(body)>> : body \in loops}
    /\ peep = <<>>
    /\ byte = <<>>
    /\ jitc = <<>>
    /\ jitu = <<>>
    /\ results = [p \in PathSet |-> NoResult]
    /\ Idle

InitRewrite == InitAfterRle(Idioms, 1 .. MaxTape, CellSamples, 0 .. MaxTape)

FinishRewrite == FinishAt("bytecode")

NextRewrite ==
    \/ PeepholeCompile
    \/ BytecodeCompile
    \/ JitCompile
    \/ RleStep
    \/ PeepholeStep
    \/ BytecodeStep
    \/ FinishRewrite

SpecRewrite == InitRewrite /\ [][NextRewrite]_vars

-----------------------------------------------------------------------------
(* The Add-loop run: the RLE program is the loop [Add(d)] for every delta  *)
(* d of a byte, on a one-cell tape holding c.  Every step that is enabled  *)
(* is eventually taken: an execution does not stop by itself.              *)

StartCells == {0, 1, 2, CellMod \div 2, CellMod - 1}

AddLoops == {<<Instr("Add", d)>> : d \in 1 .. CellMod - 1}

InitAddLoop == InitAfterRle(AddLoops, {1}, StartCells, {0})

NextAddLoop ==
    \/ PeepholeCompile
    \/ BytecodeCompile
    \/ JitCompile
    \/ RleStep
    \/ PeepholeStep
    \/ BytecodeStep
    \/ JitStep
    \/ Finish

SpecAddLoop == InitAddLoop /\ [][NextAddLoop]_vars /\ WF_vars(NextAddLoop)

-----------------------------------------------------------------------------
(* The run on failing host streams: programs that read and write, with an  *)
(* input stream that returns an error once its bytes are used up, an       *)
(* output stream that returns an error on every write, or both.            *)

IoSources ==
    { <<".">>,
      <<",">>,
      <<",", ".">>,
      <<".", ",">>,
      <<".", ",", ".">>,
      <<",", ",", ".">>,
      <<",", "+", ".">>,
      <<"+", ".", "+", ".">>,
      <<"+", ".", ">">>,
      <<",", "<", "+">>,
      <<"+", "[", ".", "-", "]">>,
      <<"+", "[", ",", "]", ".">> }

FailingHosts ==
    { [input |-> "error", output |-> "ok"],
      [input |-> "eof", output |-> "error"],
      [input |-> "error", output |-> "error"] }

InitIo ==
    /\ src \in IoSources
    /\ capacity \in 1 .. MaxCap
    /\ stdin \in Inputs
    /\ host \in FailingHosts
    /\ Unparsed

SpecIo == InitIo /\ [][Next]_vars

-----------------------------------------------------------------------------
(* The run on arbitrary source text: brackets in any arrangement, a        *)
(* command and a byte that is no command.                                  *)

ParseBytes == {"[", "]", "+", "x"}

InitParse ==
    /\ src \in SeqsUpTo(ParseBytes, MaxParseLen)
    /\ capacity = 1
    /\ stdin = <<>>
    /\ host = HealthyHost
    /\ Unparsed

SpecParse == InitParse /\ [][Next]_vars

-----------------------------------------------------------------------------
(* C1: every finished execution path other than the unchecked JIT has the  *)
(* same output byte stream and the same terminal result (normal,           *)
(* PointerUnderflow or PointerOverflow) as the AST interpreter.            *)

Finished(path) == results[path].status # "None"

CheckedPaths == PathSet \ {"jit_unchecked"}

C1_PathsAgree ==
    \A p \in CheckedPaths :
        Finished(p) =>
            /\ results[p].status = results["ast"].status
            /\ results[p].output = results["ast"].output
            /\ results[p].status \in {"Ok", "PointerUnderflow", "PointerOverflow"}

C1_Witness ==
    /\ stage = "done"
    /\ peep # rle
    /\ results["jit"].status = "PointerOverflow"
    /\ results["jit"].output # <<>>

-----------------------------------------------------------------------------
(* The instruction an execution is about to run.                           *)

TreeRunning ==
    /\ stage \in {"run_ast", "run_rle", "run_peephole"}
    /\ err = ""
    /\ ctl # <<>>
    /\ Top(ctl).i <= Len(Top(ctl).code)

ByteRunning == stage = "run_bytecode" /\ err = "" /\ pc < Len(byte)

JitRunning == stage = "run_jit" /\ err = "" /\ pc < Len(jitc)

About ==
    IF TreeRunning THEN Top(ctl).code[Top(ctl).i]
    ELSE IF ByteRunning THEN byte[pc + 1]
    ELSE IF JitRunning THEN Instr(jitc[pc + 1].op, jitc[pc + 1].n)
    ELSE Instr("None", 0)

HeadOnTape == 0 <= state.pointer /\ state.pointer < capacity

-----------------------------------------------------------------------------
(* C2: code emitted with checked = true never touches a byte outside the   *)
(* tape: while it runs the head stays on the tape and no access is         *)
(* undefined, a movement or offset-add that would leave the tape is        *)
(* stopped by an emitted test, and the run ends OKAY, UNDERFLOW or         *)
(* OVERFLOW; `+[>+]` on a tape of 4 cells ends with PointerOverflow.       *)

Leaves(operation) ==
    \/ operation.op = "Right" /\ state.pointer + operation.n >= capacity
    \/ operation.op = "Left" /\ state.pointer - operation.n < 0
    \/ /\ operation.op = "OffsetAddRight"
       /\ load(Current) # 0
       /\ state.pointer + operation.n >= capacity
    \/ /\ operation.op = "OffsetAddLeft"
       /\ load(Current) # 0
       /\ state.pointer - operation.n < 0

Stopped(operation) ==
    IF operation.op \in {"Right", "OffsetAddRight"}
    THEN overflow_test(operation, Current)
    ELSE underflow_test(operation, Current)

-----------------------------------------------------------------------------
(* C3: in every state of the tree interpreters, the bytecode dispatcher    *)
(* and the checked JIT, also after an instruction failed, the head index   *)
(* satisfies 0 <= head < capacity.                                         *)

-----------------------------------------------------------------------------
(* C4: Left(n) fails with PointerUnderflow exactly when n > head and       *)
(* Right(n) fails with PointerOverflow exactly when head + n >= capacity;  *)
(* otherwise the head moves by exactly n and no cell changes.  On a tape   *)
(* of size 1, `>` yields PointerOverflow and `<` yields PointerUnderflow.  *)

C4_Step ==
    /\ About.op = "Left" =>
          IF About.n > state.pointer
          THEN err' = "PointerUnderflow" /\ state' = state
          ELSE err' = "" /\ state' = [state EXCEPT !.pointer = @ - About.n]
    /\ About.op = "Right" =>
          IF state.pointer + About.n >= capacity
          THEN err' = "PointerOverflow" /\ state' = state
          ELSE err' = "" /\ state' = [state EXCEPT !.pointer = @ + About.n]

C4_SizeOne ==
    \A p \in CheckedPaths :
        capacity = 1 /\ Finished(p) =>
            /\ src = <<">">> => results[p].status = "PointerOverflow"
            /\ src = <<"<">> => results[p].status = "PointerUnderflow"

C4_Moves == [][C4_Step]_vars /\ []C4_SizeOne

C4_Witness ==
    /\ stage = "run_peephole"
    /\ capacity = 1
    /\ src = <<"<">>
    /\ err = "PointerUnderflow"

-----------------------------------------------------------------------------
(* C5 as stated: for every JumpZero(a) at index i there is a               *)
(* JumpNotZero(b) at index a-1 with b = i+1, and for every JumpNotZero(b)  *)
(* at index j there is a JumpZero(a) at index b-1 with a = j+1.            *)

Indices(P) == 0 .. Len(P) - 1

At(P, index) == P[index + 1]

C5_TargetsPastTheJump ==
    \A i \in Indices(byte) :
        /\ At(byte, i).op = "JumpZero" =>
              LET a == At(byte, i).n IN
              /\ a - 1 \in Indices(byte)
              /\ At(byte, a - 1).op = "JumpNotZero"
              /\ At(byte, a - 1).n = i + 1
        /\ At(byte, i).op = "JumpNotZero" =>
              LET b == At(byte, i).n IN
              /\ b - 1 \in Indices(byte)
              /\ At(byte, b - 1).op = "JumpZero"
              /\ At(byte, b - 1).n = i + 1

(* C5 as amended: for every JumpZero(a) at index i there is a              *)
(* JumpNotZero(b) at index a with b = i, and for every JumpNotZero(b) at   *)
(* index j there is a JumpZero(a) at index b with a = j: each jump holds   *)
(* the index of its partner (a Loop emits JumpZero(j) at i and             *)
(* JumpNotZero(i) at j).                                                   *)

C5_TargetsAreThePartner ==
    \A i \in Indices(byte) :
        /\ At(byte, i).op = "JumpZero" =>
              LET a == At(byte, i).n IN
              /\ a \in Indices(byte)
              /\ a > i
              /\ At(byte, a).op = "JumpNotZero"
              /\ At(byte, a).n = i
        /\ At(byte, i).op = "JumpNotZero" =>
              LET b == At(byte, i).n IN
              /\ b \in Indices(byte)
              /\ b < i
              /\ At(byte, b).op = "JumpZero"
              /\ At(byte, b).n = i

C5_Witness ==
    /\ stage = "jit"
    /\ \E i, j \in Indices(byte) :
          /\ i < j
          /\ At(byte, i).op = "JumpZero"
          /\ At(byte, j).op = "JumpZero"
          /\ At(byte, i).n > At(byte, j).n

-----------------------------------------------------------------------------
(* C6 as stated: the dispatcher, executing JumpZero(a) with the current    *)
(* cell 0 or JumpNotZero(a) with the current cell non-zero, makes the      *)
(* program counter a; otherwise the program counter becomes pc + 1.        *)

Jumping == ByteRunning /\ byte[pc + 1].op \in {"JumpZero", "JumpNotZero"}

Taken ==
    IF byte[pc + 1].op = "JumpZero" THEN load(Current) = 0 ELSE load(Current) # 0

C6_JumpSetsPcToAddress ==
    [][Jumping => pc' = IF Taken THEN byte[pc + 1].n ELSE pc + 1]_vars

(* C6 as amended: when the condition holds the program counter becomes     *)
(* a + 1 (the address is stored and the common `pc += 1` still runs, so    *)
(* the next instruction dispatched is the one at index a + 1); otherwise   *)
(* it becomes pc + 1; a jump changes neither tape, head nor streams.       *)

C6_JumpSetsPcPastAddress ==
    [][Jumping =>
          /\ pc' = IF Taken THEN byte[pc + 1].n + 1 ELSE pc + 1
          /\ UNCHANGED <<state, input, output, err>>]_vars

C6_Witness ==
    /\ stage = "run_bytecode"
    /\ Len(byte) = 3
    /\ byte[1].op = "JumpZero"
    /\ byte[2].op = "Out"
    /\ pc = byte[1].n + 1
    /\ output = <<>>

-----------------------------------------------------------------------------
(* C7: whenever the analysis proved a movement or an offset access (the    *)
(* checked code carries no test for it), it is in bounds on every          *)
(* execution that reaches it: inside loop bodies, after loops and after a  *)
(* FindZero scan.                                                          *)

Proved(operation) ==
    operation.op \in {"Right", "Left", "OffsetAddRight", "OffsetAddLeft"}
        /\ ~operation.test

-----------------------------------------------------------------------------
(* C8: when the checked JIT returns OKAY, the unchecked JIT returns OKAY   *)
(* with the same output byte stream, the same final tape and head.         *)

C8_UncheckedAgrees ==
    Finished("jit_unchecked") /\ results["jit"].status = "Ok" =>
        results["jit_unchecked"] = results["jit"]

C8_Witness ==
    /\ stage = "done"
    /\ jitu # jitc
    /\ results["jit"].status = "Ok"
    /\ results["jit"].output # <<>>
    /\ results["jit"].state.pointer > 0
    /\ results["jit_unchecked"] = results["jit"]

-----------------------------------------------------------------------------
(* C9: executing SetZero, FindZeroRight(k), FindZeroLeft(k),               *)
(* OffsetAddRight(k) or OffsetAddLeft(k) gives, from every tape and head,  *)
(* the same terminal result as executing the loop it replaces, and on      *)
(* normal termination the same tape and head.                              *)

Synthetic ==
    {"SetZero", "FindZeroRight", "FindZeroLeft", "OffsetAddRight",
     "OffsetAddLeft"}

C9_RewritePreserves ==
    \A p \in {"peephole", "bytecode"} :
        Finished(p) =>
            /\ Len(peep) = 1 /\ peep[1].op \in Synthetic
            /\ byte = peep
            /\ results[p].status = results["rle"].status
            /\ results[p].status = "Ok" => results[p].state = results["rle"].state

C9_Witness ==
    /\ stage = "done"
    /\ peep[1].op = "OffsetAddLeft"
    /\ results["rle"].status = "Ok"
    /\ results["rle"].state.memory # mem0
    /\ results["bytecode"].state = results["rle"].state

-----------------------------------------------------------------------------
(* C10: the loop [Add(d)] halts, with the current cell at 0, from every    *)
(* starting cell when d is odd; when d is even it does not halt from an    *)
(* odd starting cell; and the peephole pass replaces the loop by SetZero   *)
(* exactly when d is odd, keeping the Loop otherwise.                      *)

Delta == rle[1].body[1].n

Odd(n) == n % 2 = 1

AddLoopHalted == Finished("rle") /\ results["rle"].status = "Ok"

C10_Rewritten ==
    stage \notin {"peephole"} =>
        IF Odd(Delta) THEN peep = <<Instr("SetZero", 0)>> ELSE peep = rle

C10_EvenNeverHalts ==
    /\ AddLoopHalted => results["rle"].state.memory[0] = 0
    /\ ~Odd(Delta) /\ Odd(mem0[0]) => ~Finished("rle")

C10_AddLoopHalts ==
    /\ []C10_Rewritten
    /\ []C10_EvenNeverHalts
    /\ Odd(Delta) ~> (AddLoopHalted /\ results["rle"].state.memory[0] = 0)

C10_Witness ==
    /\ Delta = 3
    /\ mem0[0] = 1
    /\ AddLoopHalted
    /\ results["rle"].state.memory[0] = 0
    /\ peep = <<Instr("SetZero", 0)>>

-----------------------------------------------------------------------------
(* C11: within an execution every executed Out appends the current cell to *)
(* the output and touches nothing else, every executed In takes the first  *)
(* unread input byte into the current cell (0 when none is left), no other *)
(* instruction touches the streams, and every path ends with the output    *)
(* of the AST interpreter.                                                 *)

Cell == state.memory[state.pointer]

C11_Step ==
    stage' = stage =>
        /\ About.op = "Out" =>
              /\ output' = Append(output, Cell)
              /\ input' = input
              /\ state' = state
        /\ About.op = "In" =>
              /\ output' = output
              /\ state'.pointer = state.pointer
              /\ IF input = <<>>
                 THEN /\ input' = input
                      /\ state'.memory = [state.memory EXCEPT ![state.pointer] = 0]
                 ELSE /\ input' = Tail(input)
                      /\ state'.memory =
                            [state.memory EXCEPT ![state.pointer] = Head(input)]
        /\ About.op \notin {"In", "Out", "None"} =>
              input' = input /\ output' = output

C11_SameStream ==
    \A p \in CheckedPaths :
        Finished(p) => results[p].output = results["ast"].output

C11_ProgramOrder == [][C11_Step]_vars /\ []C11_SameStream

C11_Witness ==
    /\ stage = "done"
    /\ stdin = <<2, 1>>
    /\ \A p \in CheckedPaths : results[p].output = <<2, 1>>

-----------------------------------------------------------------------------
(* C12: an In executed with the input exhausted stores 0 in the current    *)
(* cell and the execution goes on, on every path; `,.` on empty input      *)
(* outputs exactly one NUL byte, also when the cell held something else.   *)

C12_Step ==
    stage' = stage /\ About.op = "In" /\ input = <<>> =>
        /\ state' = [state EXCEPT !.memory[state.pointer] = 0]
        /\ err' = ""
        /\ IF TreeRunning THEN ctl' = Advance(ctl) ELSE pc' = pc + 1

C12_OneNul ==
    \A p \in PathSet :
        /\ stdin = <<>>
        /\ src \in {<<",", ".">>, <<"+", ",", ".">>}
        /\ Finished(p)
        => results[p].status = "Ok" /\ results[p].output = <<0>>

C12_EofStoresZero == [][C12_Step]_vars /\ []C12_OneNul

C12_Witness ==
    /\ stage = "done"
    /\ src = <<"+", ",", ".">>
    /\ stdin = <<>>
    /\ results["jit"].output = <<0>>
    /\ results["peephole"].output = <<0>>

-----------------------------------------------------------------------------
(* The host stream returns an error to the instruction about to run.       *)

HostFails(op) ==
    \/ op = "In" /\ input = <<>> /\ host.input = "error"
    \/ op = "Out" /\ host.output = "error"

(* C13, for the peephole interpreter and the bytecode dispatcher: an In or *)
(* Out whose host stream returns an error ends the execution with an error *)
(* result, so that no later instruction is executed.                       *)

C13_IoErrorTerminates ==
    [][/\ stage \in {"run_peephole", "run_bytecode"}
       /\ stage' = stage
       /\ HostFails(About.op)
       => err' # ""]_vars

-----------------------------------------------------------------------------
(* C14: in the JIT, the first I/O error of a callback is stored on the RTS *)
(* object and the code goes on to its next instruction; from then on a     *)
(* write changes nothing, a read returns 0 and takes no input, the stored  *)
(* error stays as it is, and the run reports it when the code has returned *)
(* without a pointer error.                                                *)

JitIo ==
    /\ stage \in {"run_jit", "run_jit_unchecked"}
    /\ err = ""
    /\ pc < Len(JitCode)
    /\ HeadOnTape
    /\ JitCode[pc + 1].op \in {"In", "Out"}

C14_Step ==
    /\ stage' = stage /\ rts # "" => rts' = rts
    /\ stage' = stage /\ JitIo =>
          LET op == JitCode[pc + 1].op IN
          /\ err' = ""
          /\ pc' = pc + 1
          /\ rts = "" /\ HostFails(op) =>
                rts' = (IF op = "In" THEN "ReadError" ELSE "WriteError")
          /\ rts = "" /\ ~HostFails(op) => rts' = ""
          /\ rts # "" \/ HostFails(op) =>
                /\ output' = output
                /\ input' = input
                /\ op = "Out" => state' = state
                /\ op = "In" => state' = [state EXCEPT !.memory[state.pointer] = 0]
    /\ stage \in {"run_jit", "run_jit_unchecked"} /\ stage' # stage /\ err = "" =>
          results'[Running].status = (IF rts = "" THEN "Ok" ELSE rts)

-----------------------------------------------------------------------------
(* C15: parse fails with UnmatchedEnd exactly when some `]` stands where   *)
(* no `[` is open, with UnmatchedBegin exactly when there is no such `]`   *)
(* and more `[` than `]`, and otherwise returns the tree of the command    *)
(* bytes; the bytes that are no commands never change the result.          *)

Count(b, n) == Cardinality({j \in 1 .. n : src[j] = b})

EndUnmatched ==
    \E i \in 1 .. Len(src) :
        src[i] = "]" /\ Count("[", i - 1) <= Count("]", i - 1)

BeginUnmatched ==
    ~EndUnmatched /\ Count("[", Len(src)) > Count("]", Len(src))

IsCommand(b) == b \in CommandBytes

Strip(bytes) == SelectSeq(bytes, IsCommand)

RECURSIVE Unparse(_)
Unparse(prog) ==
    IF prog = <<>>
    THEN <<>>
    ELSE LET s == prog[1] IN
         (CASE s.op = "Loop" -> <<"[">> \o Unparse(s.body) \o <<"]">>
            [] s.op = "Left" -> <<"<">>
            [] s.op = "Right" -> <<">">>
            [] s.op = "Add" -> IF s.n = 1 THEN <<"+">> ELSE <<"-">>
            [] s.op = "In" -> <<",">>
            [] s.op = "Out" -> <<".">>)
         \o Unparse(Tail(prog))

C15_ParseVerdict ==
    stage # "parse" =>
        /\ EndUnmatched => ast = ParseError("UnmatchedEnd")
        /\ BeginUnmatched => ast = ParseError("UnmatchedBegin")
        /\ ~EndUnmatched /\ ~BeginUnmatched =>
              ast.ok /\ Unparse(ast.prog) = Strip(src)
        /\ ast = parse_program(Strip(src))

C15_Witness ==
    /\ stage = "syntax_error"
    /\ src = <<"[", "x", "]", "]">>
    /\ ast.err = "UnmatchedEnd"

-----------------------------------------------------------------------------
(* The passes as functions of the tree: the AST is drawn from a bounded    *)
(* set of trees and the three passes are applied to it in pipeline order.  *)
(* The set holds every short command sequence, at top level and as a loop  *)
(* body, loops in loops, and runs of `+` and of `-` long enough for the    *)
(* sum of their deltas to wrap around the cell.                            *)

AstCommands ==
    { Instr("Add", 1), Instr("Add", CellMod - 1), Instr("Left", 1),
      Instr("Right", 1), Instr("Out", 0) }

Run(cmd, n) == [i \in 1 .. n |-> cmd]

LongRuns ==
    { Run(Instr("Add", 1), CellMod),
      Run(Instr("Add", CellMod - 1), CellMod),
      Run(Instr("Add", 1), CellMod + 1),
      <<Instr("Right", 1)>> \o Run(Instr("Add", 1), CellMod)
          \o <<Instr("Right", 1)>> }

Bodies == SeqsUpTo(AstCommands, MaxAstLen) \cup LongRuns

AstSamples ==
    Bodies
    \cup { pre \o <<Loop(body)>> \o post :
              pre \in {<<>>, <<Instr("Add", 1)>>}, body \in Bodies,
              post \in {<<>>, <<Instr("Right", 1)>>} }
    \cup { <<Loop(<<Loop(body)>> \o post)>> :
              body \in SeqsUpTo(AstCommands, MaxNestLen),
              post \in SeqsUpTo(AstCommands, 1) }

InitPasses ==
    /\ AsLibrary
    /\ src = <<>>
    /\ capacity = 1
    /\ stdin = <<>>
    /\ host = HealthyHost
    /\ mem0 = [a \in 0 .. capacity - 1 |-> 0]
    /\ ptr0 = 0
    /\ stage = "rle"
    /\ ast \in {[ok |-> TRUE, err |-> "", prog |-> tree] : tree \in AstSamples}
    /\ rle = <<>>
    /\ peep = <<>>
    /\ byte = <<>>
    /\ jitc = <<>>
    /\ jitu = <<>>
    /\ results = [p \in PathSet |-> NoResult]
    /\ Idle

NextPasses ==
    \/ RleCompile
    \/ PeepholeCompile
    \/ BytecodeCompile

SpecPasses == InitPasses /\ [][NextPasses]_vars

-----------------------------------------------------------------------------
(* C16: the RLE IR, the peephole IR and the bytecode hold no Add(0),       *)
(* Left(0) or Right(0), at top level or inside loops; a program or a loop  *)
(* body that is one run of Adds compiles to nothing when its deltas sum to *)
(* 0 modulo 256 (`+-`, 256 times `+`) and to a single Add otherwise.       *)

RECURSIVE NoZeroCount(_)
NoZeroCount(prog) ==
    \A i \in 1 .. Len(prog) :
        /\ prog[i].op \in {"Left", "Right"} => prog[i].n >= 1
        /\ prog[i].op = "Add" => prog[i].n \in 1 .. CellMod - 1
        /\ prog[i].op = "Loop" => NoZeroCount(prog[i].body)

AllAdds(prog) == \A i \in 1 .. Len(prog) : prog[i].op = "Add"

RECURSIVE Total(_, _, _)
Total(prog, lo, hi) ==
    IF lo > hi
    THEN 0
    ELSE IF lo = hi
    THEN prog[lo].n
    ELSE LET mid == (lo + hi) \div 2 IN
         Total(prog, lo, mid) + Total(prog, mid + 1, hi)

OneAdd(prog) ==
    LET sum == Total(prog, 1, Len(prog)) % CellMod IN
    IF sum = 0 THEN <<>> ELSE <<Instr("Add", sum)>>

C16_NoZeroCounts ==
    /\ NoZeroCount(rle)
    /\ NoZeroCount(peep)
    /\ NoZeroCount(byte)
    /\ stage # "rle" /\ AllAdds(ast.prog) => rle = OneAdd(ast.prog)
    /\ \A i \in 1 .. Len(ast.prog) :
          /\ stage # "rle"
          /\ ast.prog[i].op = "Loop"
          /\ AllAdds(ast.prog[i].body)
          => \E j \in 1 .. Len(rle) :
                rle[j] = Loop(OneAdd(ast.prog[i].body))

C16_Witness ==
    /\ stage = "jit"
    /\ ast.prog = <<Loop(Run(Instr("Add", 1), CellMod)), Instr("Right", 1)>>
    /\ rle = <<Loop(<<>>), Instr("Right", 1)>>
    /\ Len(byte) = 3

-----------------------------------------------------------------------------
(* C17: the RLE pass applied to its own output changes nothing, and its    *)
(* output never holds two adjacent Lefts, Rights or Adds, at any depth,    *)
(* also where a zero-sum run of Adds between two moves was erased.         *)

RECURSIVE Coalesced(_)
Coalesced(prog) ==
    /\ \A i \in 1 .. Len(prog) - 1 :
          prog[i].op \in {"Left", "Right", "Add"} => prog[i + 1].op # prog[i].op
    /\ \A i \in 1 .. Len(prog) :
          prog[i].op = "Loop" => Coalesced(prog[i].body)

-----------------------------------------------------------------------------
(* C18: the peephole pass applied to its own output changes nothing: no    *)
(* loop of the peephole IR, at any depth, has a body that is one of the    *)
(* idioms.                                                                 *)

RECURSIVE Rewritten(_)
Rewritten(prog) ==
    \A i \in 1 .. Len(prog) :
        prog[i].op = "Loop" =>
            /\ peephole_loop(prog[i].body) = prog[i]
            /\ Rewritten(prog[i].body)

C18_PeepholeIdempotent ==
    stage \notin {"rle", "peephole"} =>
        /\ peep = peephole_compile(rle_compile(ast.prog))
        /\ peephole_compile(peep) = peep
        /\ Rewritten(peep)

C18_Witness ==
    /\ stage = "bytecode"
    /\ ast.prog = <<Loop(<<Loop(<<Instr("Add", CellMod - 1)>>), Instr("Right", 1)>>)>>
    /\ peep = <<Loop(<<Instr("SetZero", 0), Instr("Right", 1)>>)>>

-----------------------------------------------------------------------------
(* bfi, the executable.  The command line is the set of flags given, the   *)
(* kind of program source, the memory size (capacity) and the program text *)
(* (src).  clap checks the flags against the attributes of NewOptions and  *)
(* ends the process itself when it rejects them; main does the rest.       *)

(* conflicts_with_all of each flag.                                        *)
ConflictsWith(flag) ==
    CASE flag = "unchecked" -> {"ast", "rle", "bytecode", "peephole", "llvm"}
      [] flag = "ast" -> {"rle", "bytecode", "unchecked", "peephole", "jit", "llvm"}
      [] flag = "rle" -> {"ast", "bytecode", "peephole", "jit", "llvm", "unchecked"}
      [] flag = "bytecode" -> {"ast", "rle", "jit", "llvm", "unchecked"}
      [] flag = "peephole" -> {"ast", "rle", "bytecode", "jit", "llvm", "unchecked"}
      [] flag = "jit" -> {"ast", "rle", "bytecode", "peephole", "llvm"}
      [] flag = "llvm" -> {"ast", "rle", "bytecode", "peephole", "jit", "unchecked"}

(* requires of each flag.                                                  *)
Requires(flag) == IF flag = "unchecked" THEN {"jit"} ELSE {}

(* default_value_t of each flag: a flag that is not given has its default. *)
DefaultValue(flag) == flag = "peephole"

(* clap: a conflict declared on either flag counts, and only flags given   *)
(* on the command line conflict or require, not defaults.                  *)
Rejected(args) ==
    \/ \E f \in args.flags, g \in args.flags :
          g \in ConflictsWith(f) \/ f \in ConflictsWith(g)
    \/ \E f \in args.flags : ~(Requires(f) \subseteq args.flags)
    \/ args.source = "both"

NewOptions_parse(args) ==
    [f \in Flags |-> f \in args.flags \/ DefaultValue(f)]

Pass_new(opts) ==
    IF opts.ast THEN "Ast"
    ELSE IF opts.rle THEN "Rle"
    ELSE IF opts.bytecode THEN "Bytecode"
    ELSE IF opts.peephole THEN "Peephole"
    ELSE IF opts.jit THEN "Jit"
    ELSE IF opts.llvm THEN "Llvm"
    ELSE "Peephole"

error_exit(code) ==
    /\ exit' = <<code>>
    /\ stage' = "exited"

ClapParse ==
    /\ stage = "cli"
    /\ IF Rejected(argv)
       THEN stage' = "usage_error" /\ UNCHANGED options
       ELSE stage' = "main" /\ options' = NewOptions_parse(argv)
    /\ UNCHANGED <<given, exit, ast, rle, peep, byte, jitc, jitu, machine, results>>

(* main up to the call of parse: the memory size, then the program text.   *)
Main ==
    /\ stage = "main"
    /\ IF capacity = 0
       THEN error_exit(1)
       ELSE IF argv.source = "expr"
       THEN stage' = "parse" /\ UNCHANGED exit
       ELSE IF argv.source = "file"
       THEN stage' = "parse" /\ UNCHANGED exit
       ELSE IF argv.source = "unreadable"
       THEN error_exit(1)
       ELSE error_exit(1)
    /\ UNCHANGED <<given, options, ast, rle, peep, byte, jitc, jitu, machine,
                   results>>

ParseFailed ==
    /\ stage = "syntax_error"
    /\ error_exit(2)
    /\ UNCHANGED <<given, options, ast, rle, peep, byte, jitc, jitu, machine,
                   results>>

(* The path each arm of main's match hands to interpret.                   *)
PathOf(pass, unchecked) ==
    CASE pass = "Ast" -> "ast"
      [] pass = "Rle" -> "rle"
      [] pass = "Peephole" -> "peephole"
      [] pass = "Bytecode" -> "bytecode"
      [] pass = "Jit" -> IF unchecked THEN "jit_unchecked" ELSE "jit"

(* main's match on the pass: the arm compiles the program and calls        *)
(* interpret on it.  The LLVM backend is not modelled: its run ends the    *)
(* process with one of the two codes the arm can give.                     *)
Match ==
    /\ stage = "rle"
    /\ LET pass == Pass_new(options)
           r == rle_compile(ast.prog)
           p == peephole_compile(r)
       IN IF pass = "Peephole" /\ options.unchecked
          THEN /\ error_exit(2)
               /\ UNCHANGED <<rle, peep, byte, jitc, jitu, ctl>>
          ELSE IF pass = "Llvm"
          THEN /\ \E code \in {0, 3} : error_exit(code)
               /\ UNCHANGED <<rle, peep, byte, jitc, jitu, ctl>>
          ELSE /\ stage' = RunStage(PathOf(pass, options.unchecked))
               /\ rle' = IF pass = "Ast" THEN rle ELSE r
               /\ peep' = IF pass \in {"Ast", "Rle"} THEN peep ELSE p
               /\ byte' = IF pass = "Bytecode" THEN flat_compile(p) ELSE byte
               /\ jitc' = IF pass = "Jit" /\ ~options.unchecked
                          THEN jit_compile(p, TRUE) ELSE jitc
               /\ jitu' = IF pass = "Jit" /\ options.unchecked
                          THEN jit_compile(p, FALSE) ELSE jitu
               /\ ctl' = CASE pass = "Ast" -> <<Frame(ast.prog)>>
                           [] pass = "Rle" -> <<Frame(r)>>
                           [] pass = "Peephole" -> <<Frame(p)>>
                           [] OTHER -> <<>>
               /\ UNCHANGED exit
    /\ UNCHANGED <<given, options, ast, state, input, output, pc, err, rts,
                   results>>

(* interpret: one step of the program main handed to it.                   *)
Interpret ==
    IF stage = "run_ast" THEN AstStep
    ELSE IF stage = "run_rle" THEN RleStep
    ELSE IF stage = "run_peephole" THEN PeepholeStep
    ELSE IF stage = "run_bytecode" THEN BytecodeStep
    ELSE JitStep

(* interpret returns: main ends with 0, or error_exit(3) on an error.      *)
Exit ==
    /\ stage \in RunStages
    /\ Returned
    /\ results' = [results EXCEPT ![Running] = Result]
    /\ error_exit(IF Result.status = "Ok" THEN 0 ELSE 3)
    /\ UNCHANGED <<given, options, ast, rle, peep, byte, jitc, jitu, machine>>

CliSources == {<<"+">>, <<"]">>, <<"<">>, <<"+", "[", ">", "]">>, <<"[", "-", "]">>}

Sources == {"expr", "file", "unreadable", "none", "both"}

InitCli ==
    /\ argv \in [flags : SUBSET Flags, source : Sources]
    /\ src \in IF argv.source \in {"expr", "file"} THEN CliSources ELSE {<<>>}
    /\ capacity \in 0 .. MaxCliCap
    /\ stdin = <<>>
    /\ host = HealthyHost
    /\ options = NoOptions
    /\ exit = <<>>
    /\ mem0 = [a \in 0 .. capacity - 1 |-> 0]
    /\ ptr0 = 0
    /\ stage = "cli"
    /\ ast = ParseError("")
    /\ rle = <<>>
    /\ peep = <<>>
    /\ byte = <<>>
    /\ jitc = <<>>
    /\ jitu = <<>>
    /\ results = [p \in PathSet |-> NoResult]
    /\ Idle

NextCli ==
    \/ ClapParse
    \/ Main
    \/ Parse
    \/ ParseFailed
    \/ Match
    \/ Interpret
    \/ Exit

SpecCli == InitCli /\ [][NextCli]_vars

-----------------------------------------------------------------------------
(* C19: the pass selectors are mutually exclusive, each one selects its    *)
(* own execution path (--jit runs the JIT, unchecked with -u), and with no *)
(* selector the peephole interpreter runs.                                 *)

Given == argv.flags \cap Selectors

Selected ==
    IF Given = {} \/ Given = {"peephole"} THEN "peephole"
    ELSE IF Given = {"jit"}
    THEN IF "unchecked" \in argv.flags THEN "jit_unchecked" ELSE "jit"
    ELSE IF Given = {"ast"} THEN "ast"
    ELSE IF Given = {"rle"} THEN "rle"
    ELSE IF Given = {"bytecode"} THEN "bytecode"
    ELSE "llvm"

C19_SelectorsSelect ==
    /\ stage \notin {"cli", "usage_error"} => Cardinality(Given) <= 1
    /\ stage \in RunStages => stage = RunStage(Selected)
    /\ stage = "exited" /\ Given = {"jit"} /\ ast.ok =>
          \E path \in {"jit", "jit_unchecked"} : Finished(path)

-----------------------------------------------------------------------------
(* C20: bfi exits with 0 on success, 1 on every usage error (memory size   *)
(* 0, no program, unreadable file, a flag combination main refuses), 2     *)
(* only on a parse error, and 3 on a runtime error.                        *)

UsageError == capacity = 0 \/ argv.source \in {"none", "unreadable"}

C20_ExitCodes ==
    exit # <<>> =>
        /\ exit[1] \in {0, 1, 2, 3}
        /\ exit[1] = 1 <=> UsageError
        /\ exit[1] = 2 <=> ~UsageError /\ ~ast.ok
        /\ exit[1] = 3 <=> \E path \in PathSet :
                               results[path].status \notin {"None", "Ok"}
        /\ exit[1] = 0 <=> \E path \in PathSet : results[path].status = "Ok"

-----------------------------------------------------------------------------
(* C21: -u is accepted only together with --jit, and then the program is   *)
(* compiled by the JIT with checked = false and run; with any other pass,  *)
(* or none, nothing is run, so no other backend ever runs unchecked.       *)

Unchecked == "unchecked" \in argv.flags

C21_UncheckedOnlyWithJit ==
    /\ Unchecked /\ stage \notin {"cli", "usage_error"} => Given = {"jit"}
    /\ Unchecked /\ stage \in RunStages => stage = "run_jit_unchecked"
    /\ Unchecked /\ Given # {"jit"} => \A path \in PathSet : ~Finished(path)
    /\ Unchecked /\ Given = {"jit"} /\ stage = "exited" /\ ~UsageError /\ ast.ok
          => Finished("jit_unchecked")

-----------------------------------------------------------------------------
(* C22: in compiled bytecode a JumpZero reached with the current cell 0    *)
(* continues right after the JumpNotZero that closes its loop (which ends  *)
(* the run when that is len(P)), a JumpNotZero reached with a non-zero     *)
(* cell continues right after the JumpZero that opens its loop, any other  *)
(* jump falls through; the dispatcher only fetches inside P and the run    *)
(* has returned once pc >= len(P).  The partner of a jump is found by      *)
(* counting brackets, not by the address the jump holds.                   *)

Opens(P, lo, hi) == Cardinality({k \in lo .. hi : At(P, k).op = "JumpZero"})

Closes(P, lo, hi) == Cardinality({k \in lo .. hi : At(P, k).op = "JumpNotZero"})

LoopEnd(P, i) ==
    CHOOSE j \in Indices(P) :
        /\ j > i
        /\ Opens(P, i, j) = Closes(P, i, j)
        /\ \A k \in i .. j - 1 : Opens(P, i, k) > Closes(P, i, k)

LoopBegin(P, j) ==
    CHOOSE i \in Indices(P) :
        /\ i < j
        /\ Opens(P, i, j) = Closes(P, i, j)
        /\ \A k \in i + 1 .. j : Opens(P, k, j) < Closes(P, k, j)

C22_Step ==
    Jumping =>
        /\ pc' = IF ~Taken THEN pc + 1
                 ELSE IF byte[pc + 1].op = "JumpZero"
                 THEN LoopEnd(byte, pc) + 1
                 ELSE LoopBegin(byte, pc) + 1
        /\ byte[pc + 1].op = "JumpZero" /\ Taken => pc' > pc + 1
        /\ byte[pc + 1].op = "JumpNotZero" /\ Taken => pc' <= pc
        /\ pc' \in 0 .. Len(byte)

C22_Fetch ==
    stage = "run_bytecode" =>
        /\ pc \in 0 .. Len(byte)
        /\ pc >= Len(byte) => Returned /\ ~ENABLED BytecodeStep

C22_LoopJumps == [][C22_Step]_vars /\ []C22_Fetch

C22_Witness ==
    /\ stage = "run_bytecode"
    /\ err = ""
    /\ Len(byte) = 5
    /\ pc = Len(byte)
    /\ byte[pc].op = "JumpNotZero"
    /\ LoopBegin(byte, pc - 1) = 1
    /\ Len(output) = 2

-----------------------------------------------------------------------------
(* Programs that write, then run off the tape inside a loop or a loop in a *)
(* loop, and would read or write again if they went on.                    *)

FailSources ==
    { <<"+", ".", ">", ".">>,
      <<"+", ".", "<", ".">>,
      <<"+", ".", "[", "[", ">", "+", ".", "]", ".", "]", ".">>,
      <<"+", ".", "[", "[", "<", "]", "]", ".">>,
      <<"+", ".", "[", ">", "]", ",", ".">>,
      <<"+", ".", "[", "<", "]", ".">>,
      <<"+", ".", "[", "-", ">", "+", "<", "]", ".">>,
      <<"+", ".", "[", "-", "<", "+", ">", "]", ".">>,
      <<"+", "[", ".", "[", ">", "+", ".", "]", "]">>,
      <<"+", "[", ">", "+", "[", "-", "<", "<", "]", ".", "]", ".">> }

InitFail ==
    /\ src \in FailSources
    /\ capacity \in 1 .. MaxTape
    /\ stdin \in IF Reads(src) THEN Inputs ELSE {<<>>}
    /\ host = HealthyHost
    /\ Unparsed

SpecFail == InitFail /\ [][Next]_vars

-----------------------------------------------------------------------------
(* C23: a Left, Right, FindZero or OffsetAdd that runs off the tape ends   *)
(* the execution with that error in the same step: the step reads and      *)
(* writes nothing, no further step of the execution follows, and the       *)
(* result holds the error and the output written before the step.  Tree    *)
(* interpreters (also inside loops in loops), bytecode dispatcher and      *)
(* checked JIT.                                                            *)

Scan(k) == {j \in 0 .. capacity : j * k <= capacity}

OffRight ==
    \/ About.op = "Right" /\ state.pointer + About.n >= capacity
    \/ About.op = "OffsetAddRight" /\ Cell # 0
          /\ state.pointer + About.n >= capacity
    \/ About.op = "FindZeroRight"
          /\ \A j \in Scan(About.n) :
                state.pointer + j * About.n < capacity
                => state.memory[state.pointer + j * About.n] # 0

OffLeft ==
    \/ About.op = "Left" /\ state.pointer < About.n
    \/ About.op = "OffsetAddLeft" /\ Cell # 0 /\ state.pointer < About.n
    \/ About.op = "FindZeroLeft"
          /\ \A j \in Scan(About.n) :
                state.pointer - j * About.n >= 0
                => state.memory[state.pointer - j * About.n] # 0

CheckedRun == stage \in RunStages \ {"run_jit_unchecked"}

C23_Step ==
    /\ CheckedRun /\ err = "" /\ (OffRight \/ OffLeft) =>
          /\ err' = IF OffRight THEN "PointerOverflow" ELSE "PointerUnderflow"
          /\ stage' = stage
          /\ output' = output
          /\ input' = input
    /\ CheckedRun /\ err # "" =>
          /\ stage' # stage
          /\ results'[Running].status = err
          /\ results'[Running].output = output

C23_ErrorEndsExecution == [][C23_Step]_vars

C23_Witness ==
    /\ stage = "run_ast"
    /\ err = "PointerOverflow"
    /\ Len(ctl) = 3
    /\ output = <<1, 1>>
    /\ capacity = 2

-----------------------------------------------------------------------------
(* The offset-add loops run from every head position on tapes of sampled   *)
(* cells, by the RLE and peephole interpreters, the bytecode dispatcher    *)
(* and both JIT programs.                                                  *)

OffsetAddLoops ==
    {<<Instr("Add", CellMod - 1), Instr("Right", k),
       Instr("Add", 1), Instr("Left", k)>> : k \in 1 .. MaxSkip}
        \cup {<<Instr("Add", CellMod - 1), Instr("Left", k),
                Instr("Add", 1), Instr("Right", k)>> : k \in 1 .. MaxSkip}

InitOffsetAdd ==
    InitAfterRle(OffsetAddLoops, 1 .. MaxTape, CellSamples, 0 .. MaxTape)

NextOffsetAdd ==
    \/ PeepholeCompile
    \/ BytecodeCompile
    \/ JitCompile
    \/ RleStep
    \/ PeepholeStep
    \/ BytecodeStep
    \/ JitStep
    \/ Finish

SpecOffsetAdd == InitOffsetAdd /\ [][NextOffsetAdd]_vars

-----------------------------------------------------------------------------
(* C24: OffsetAddRight(k) and OffsetAddLeft(k) leave the head where it is; *)
(* on a zero cell they change nothing and do not fail, wherever the target *)
(* lies; on a non-zero cell with the target on the tape the current cell   *)
(* becomes 0, the target grows by the old value modulo 256 and nothing     *)
(* else changes.  Peephole interpreter, bytecode dispatcher, JIT.          *)

Stepping ==
    IF stage = "run_peephole" /\ TreeRunning THEN Top(ctl).code[Top(ctl).i]
    ELSE IF ByteRunning THEN byte[pc + 1]
    ELSE IF stage \in {"run_jit", "run_jit_unchecked"} /\ err = ""
            /\ pc < Len(JitCode)
    THEN Instr(JitCode[pc + 1].op, JitCode[pc + 1].n)
    ELSE Instr("None", 0)

Target ==
    IF Stepping.op = "OffsetAddRight"
    THEN state.pointer + Stepping.n
    ELSE state.pointer - Stepping.n

C24_Step ==
    Stepping.op \in {"OffsetAddRight", "OffsetAddLeft"} =>
        /\ input' = input /\ output' = output
        /\ stage # "run_jit_unchecked" => state'.pointer = state.pointer
        /\ Cell = 0 => state' = state /\ err' = ""
        /\ Cell # 0 /\ Target \in 0 .. capacity - 1 =>
              /\ err' = ""
              /\ state'.pointer = state.pointer
              /\ state'.memory = [state.memory EXCEPT
                                     ![state.pointer] = 0,
                                     ![Target] = (@ + Cell) % CellMod]

C24_OffsetAddFrame == [][C24_Step]_vars

C24_Witness ==
    /\ stage = "run_jit"
    /\ pc = 1
    /\ err = ""
    /\ jitc[1].op = "OffsetAddLeft"
    /\ jitc[1].n = 2
    /\ state.pointer = 0
    /\ state = NewState(mem0, ptr0)
    /\ mem0[0] = 0

-----------------------------------------------------------------------------
(* Moves by counts from both halves of the Count range, handed to the      *)
(* backends as a peephole program (JitCompilable and Interpretable are     *)
(* implemented for peephole::Program itself), after 0, 1 or 2 steps to the *)
(* right so that every head position of the tape occurs.                   *)

CountSamples == {1, 2, WordMod \div 2 - 1, WordMod \div 2, WordMod - 1}

CountPrograms ==
    { pre \o <<Instr(op, n)>> :
        pre \in {<<>>, <<Instr("Right", 1)>>, <<Instr("Right", 2)>>},
        op \in {"Right", "Left"}, n \in CountSamples }

InitCount ==
    /\ AsLibrary
    /\ src = <<>>
    /\ capacity \in 1 .. MaxTape
    /\ stdin = <<>>
    /\ host = HealthyHost
    /\ mem0 = [a \in 0 .. capacity - 1 |-> 0]
    /\ ptr0 = 0
    /\ stage = "bytecode"
    /\ ast = [ok |-> TRUE, err |-> "", prog |-> <<>>]
    /\ peep \in CountPrograms
    /\ rle = peep
    /\ byte = <<>>
    /\ jitc = <<>>
    /\ jitu = <<>>
    /\ results = [p \in PathSet |-> NoResult]
    /\ Idle

NextCount ==
    \/ BytecodeCompile
    \/ JitCompile
    \/ RleStep
    \/ PeepholeStep
    \/ BytecodeStep
    \/ JitStep
    \/ Finish

SpecCount == InitCount /\ [][NextCount]_vars

-----------------------------------------------------------------------------
(* C25: for every count n of the Count type and every head position, the   *)
(* test the checked JIT emits for Right(n) branches to overflow exactly    *)
(* when head + n >= capacity, the test for Left(n) branches to underflow   *)
(* exactly when n > head, and the checked JIT ends as the interpreters do, *)
(* also for n in the upper half of the Count range.                        *)

Tested ==
    /\ stage = "run_jit"
    /\ err = ""
    /\ pc < Len(jitc)
    /\ jitc[pc + 1].op \in {"Right", "Left"}
    /\ jitc[pc + 1].test

C25_Step ==
    Tested =>
        /\ jitc[pc + 1].op = "Right" =>
              (err' = "PointerOverflow" <=>
                  state.pointer + jitc[pc + 1].n >= capacity)
        /\ jitc[pc + 1].op = "Left" =>
              (err' = "PointerUnderflow" <=> jitc[pc + 1].n > state.pointer)

C25_Agree ==
    Finished("jit") => results["jit"].status = results["peephole"].status

C25_TestBranches == [][C25_Step]_vars /\ []C25_Agree

-----------------------------------------------------------------------------
(* C26: the RLE IR and the peephole IR hold no JumpZero or JumpNotZero at  *)
(* any depth, only commands the tree interpreters and the JIT compiler     *)
(* have an arm for that does not panic; the bytecode holds no Loop, and    *)
(* two jumps for every loop of the peephole IR.                            *)

TreeOps ==
    {"Left", "Right", "Add", "In", "Out", "SetZero", "OffsetAddRight",
     "OffsetAddLeft", "FindZeroRight", "FindZeroLeft", "Loop"}

RECURSIVE NoJumps(_)
NoJumps(prog) ==
    \A i \in 1 .. Len(prog) :
        /\ prog[i].op \in TreeOps
        /\ prog[i].op = "Loop" => NoJumps(prog[i].body)

RECURSIVE Loops(_, _)
Loops(prog, i) ==
    IF i > Len(prog)
    THEN 0
    ELSE (IF prog[i].op = "Loop" THEN 1 + Loops(prog[i].body, 1) ELSE 0)
         + Loops(prog, i + 1)

C26_JumpsOnlyInBytecode ==
    /\ NoJumps(rle)
    /\ NoJumps(peep)
    /\ \A i \in 1 .. Len(byte) : byte[i].op \in (TreeOps \ {"Loop"}) \cup
                                               {"JumpZero", "JumpNotZero"}
    /\ stage = "jit" =>
          /\ Opens(byte, 0, Len(byte) - 1) = Loops(peep, 1)
          /\ Closes(byte, 0, Len(byte) - 1) = Loops(peep, 1)

C26_Witness ==
    /\ stage = "jit"
    /\ peep = <<Loop(<<Loop(<<Instr("Out", 0)>>), Instr("Right", 1)>>)>>
    /\ Len(byte) = 6

-----------------------------------------------------------------------------
(* C27: the JIT emits the bounds test of a Right, Left or OffsetAdd        *)
(* exactly when checked is true and the analyzer did not prove the step;   *)
(* unchecked code holds no test at all; a FindZero resets the slack on     *)
(* its side first and, in checked code, tests the step of its scan.        *)
(* Expected walks the program with the analyzer alone and lists, for each  *)
(* emitted operation in order, whether checked code must test it.          *)

RECURSIVE Expected(_, _, _)
ExpectedOne(acc, stm) ==
    LET b == acc.b IN
    CASE stm.op = "Right" ->
            [b |-> move_right(b, stm.n),
             tests |-> Append(acc.tests, ~check_right(b, stm.n))]
      [] stm.op = "Left" ->
            [b |-> move_left(b, stm.n),
             tests |-> Append(acc.tests, ~check_left(b, stm.n))]
      [] stm.op = "OffsetAddRight" ->
            [acc EXCEPT !.tests = Append(@, ~check_right(b, stm.n))]
      [] stm.op = "OffsetAddLeft" ->
            [acc EXCEPT !.tests = Append(@, ~check_left(b, stm.n))]
      [] stm.op = "FindZeroRight" ->
            [b |-> reset_right(b), tests |-> acc.tests \o <<FALSE, TRUE, FALSE>>]
      [] stm.op = "FindZeroLeft" ->
            [b |-> reset_left(b), tests |-> acc.tests \o <<FALSE, TRUE, FALSE>>]
      [] stm.op = "Loop" ->
            LET body == Expected([b |-> enter_loop(b, stm.body),
                                  tests |-> Append(acc.tests, FALSE)],
                                 stm.body, 1)
            IN [b |-> leave_loop(body.b), tests |-> Append(body.tests, FALSE)]
      [] OTHER -> [acc EXCEPT !.tests = Append(@, FALSE)]

Expected(acc, program, i) ==
    IF i > Len(program)
    THEN acc
    ELSE Expected(ExpectedOne(acc, program[i]), program, i + 1)

ExpectedTests ==
    Expected([b |-> NewAnalysis("AbstractInterpreter"), tests |-> <<>>],
             peep, 1).tests

C27_TestsEmitted ==
    stage \in RunStages \cup {"done"} =>
        /\ Len(jitc) = Len(ExpectedTests)
        /\ Len(jitu) = Len(jitc)
        /\ \A i \in 1 .. Len(jitc) :
              /\ jitc[i].test = ExpectedTests[i]
              /\ ~jitu[i].test
              /\ jitu[i].op = jitc[i].op
              /\ jitc[i].test => jitc[i].op \in {"Right", "Left", "OffsetAddRight",
                                                 "OffsetAddLeft"}

C27_Witness ==
    /\ stage = "run_ast"
    /\ Len(jitc) = 9
    /\ jitc[5].op = "Left" /\ ~jitc[5].test
    /\ jitc[6].op = "Jmp"
    /\ jitc[7].op = "Right" /\ jitc[7].test
    /\ jitc[8].op = "Jnz"
    /\ jitc[9].op = "Right" /\ jitc[9].test

-----------------------------------------------------------------------------
(* C28: FindZeroRight(k) and FindZeroLeft(k), k >= 1, always end on a      *)
(* finite tape: the head stops on the first zero cell at a distance that   *)
(* is a multiple of k from the start in the direction of the scan, or the  *)
(* scan ends with PointerOverflow (resp. PointerUnderflow); no cell is     *)
(* modified.  Peephole interpreter and bytecode dispatcher.                *)

Scanning == Stepping.op \in {"FindZeroRight", "FindZeroLeft"}

Scanned(j) ==
    IF Stepping.op = "FindZeroRight"
    THEN state.pointer + j * Stepping.n
    ELSE state.pointer - j * Stepping.n

Inside(j) == Scanned(j) \in 0 .. capacity - 1

Stops ==
    {j \in 0 .. capacity :
        /\ \A i \in 0 .. j : Inside(i)
        /\ state.memory[Scanned(j)] = 0
        /\ \A i \in 0 .. j - 1 : state.memory[Scanned(i)] # 0}

OffEnd == IF Stepping.op = "FindZeroRight" THEN "PointerOverflow"
                                           ELSE "PointerUnderflow"

C28_Step ==
    Scanning =>
        /\ Stepping.n >= 1
        /\ state'.memory = state.memory
        /\ input' = input /\ output' = output
        /\ IF Stops # {}
           THEN /\ err' = ""
                /\ \E j \in Stops : state'.pointer = Scanned(j)
           ELSE err' = OffEnd

C28_Ends == Scanning => ENABLED (PeepholeStep \/ BytecodeStep)

C28_ScanTerminates == [][C28_Step]_vars /\ []C28_Ends

C28_Witness ==
    /\ stage = "run_bytecode"
    /\ Len(byte) = 1
    /\ byte[1] = Instr("FindZeroLeft", 2)
    /\ pc = 1
    /\ capacity = 3
    /\ ptr0 = 2
    /\ mem0[2] # 0 /\ mem0[1] = 0 /\ mem0[0] = 0
    /\ state.pointer = 0
    /\ err = ""

C28_WitnessOffEnd ==
    /\ stage = "run_peephole"
    /\ peep = <<Instr("FindZeroRight", 2)>>
    /\ ptr0 = 0
    /\ mem0[0] # 0
    /\ err = "PointerOverflow"

====
